---- MODULE Spec2Model ----
(***************************************************************************)
(* Task orchestration engine of the AutoZerts extension: the task record   *)
(* store (utils/storage), the background command RunOrchestration with its *)
(* cancellation poller, and the three flows of services/claude.ts          *)
(* (orchestrateImplementation, orchestratePlan, orchestrateFeedback).      *)
(*                                                                         *)
(* Text is a sequence of code-unit tokens: "HI" is a lone high surrogate    *)
(* code unit, "LO" a low surrogate code unit, "FFFD" the replacement        *)
(* character; any other token stands for a run of ordinary code units.      *)
(* An optional field is <<>> when unset and <<v>> when set.                 *)
(* The timestamps createdAt / updatedAt of a record are not modelled.       *)
(***************************************************************************)
EXTENDS Integers, Sequences, FiniteSets, TLC

\* ------------------------------------------------------------------ bounds
\* launches of the background command in one behaviour
MaxRuns == 2
\* failures of external operations (git, network, agent) in one behaviour
MaxFaults == 1
\* progress events the agent emits in one run of the log-bounding
\* specification (more than LogCap)
MaxAppends == 503
\* calls of the worktree services in one behaviour of SpecGit
MaxCalls == 5
\* tokens of a plan file's text in SpecPrompt
MaxPlanLen == 3
\* store operations in one behaviour of SpecStore
MaxStoreOps == 4
\* code units of a string given to sanitizeUnicode in SpecText
MaxTextLen == 4
\* calls each concurrent caller makes in SpecRace
MaxRaceCalls == 2
\* the install commands that fail in one call of installDependencies
MaxFailing == 1
\* the agent events, or the raise, of one agent step
MaxEvents == 2
\* how far agent text and commands go beyond the truncation limits
MaxOver == 2
\* the comments of one kind on a pull request, and the latest timestamp
MaxComments == 1
MaxTime == 2

\* ------------------------------------------------------- program constants
\* appendProgressLog keeps the last 500 entries
LogCap == 500
\* number and cost (in cents) of the pull request / agent result the
\* environment hands back
\* the characters of agent text and of a Bash command kept in a progress entry
ClaudeLimit == 300
BashLimit == 200
PrNumber == 17
AgentCost == 3

None == <<>>
Some(v) == <<v>>

Absent == [absent |-> TRUE]

\* ------------------------------------------------------------------- text
IsHigh(u) == u = "HI"
IsLow(u) == u = "LO"

RECURSIVE sanitizeFrom(_, _)
sanitizeFrom(str, i) ==
  IF i > Len(str) THEN <<>>
  ELSE IF IsHigh(str[i])
       THEN IF i + 1 <= Len(str) /\ IsLow(str[i + 1])
            THEN <<str[i], str[i + 1]>> \o sanitizeFrom(str, i + 2)
            ELSE <<"FFFD">> \o sanitizeFrom(str, i + 1)
       ELSE IF IsLow(str[i])
            THEN <<"FFFD">> \o sanitizeFrom(str, i + 1)
            ELSE <<str[i]>> \o sanitizeFrom(str, i + 1)

\* a faulty variant: every surrogate is replaced, paired or not
sanitizeUnicodeEvery(str) ==
  [i \in 1..Len(str) |-> IF IsHigh(str[i]) \/ IsLow(str[i]) THEN "FFFD" ELSE str[i]]

sanitizeUnicode(str) == sanitizeFrom(str, 1)

\* Text is a sequence of tokens: "NL" is a line break, "SP" a blank, every
\* other token a run of non-whitespace characters.
IsSpace(c) == c \in {"NL", "SP"}

\* String.prototype.trim: drop the whitespace at both ends
RECURSIVE trimStart(_)
trimStart(s) == IF s # <<>> /\ IsSpace(Head(s)) THEN trimStart(Tail(s)) ELSE s

RECURSIVE trimEnd(_)
trimEnd(s) ==
  IF s # <<>> /\ IsSpace(s[Len(s)]) THEN trimEnd(SubSeq(s, 1, Len(s) - 1)) ELSE s

\* a faulty variant: the text is not trimmed
trimNot(s) == s

trim(s) == trimEnd(trimStart(s))

\* ------------------------------------------------------------------ store
\* a faulty variant: slice(0, 500), which keeps the oldest entries
TrimLogDropNewest(log) ==
  IF Len(log) > LogCap THEN SubSeq(log, 1, LogCap) ELSE log

\* task.progressLog.slice(-500) once the length exceeds 500
TrimLog(log) ==
  IF Len(log) > LogCap THEN SubSeq(log, Len(log) - LogCap + 1, Len(log)) ELSE log

\* `[${new Date().toLocaleTimeString()}] ${sanitizeUnicode(message)}`
LogEntry(message) == <<"[time] ">> \o sanitizeUnicode(message)

appendProgressLog(t, message) ==
  IF t = Absent THEN t
  ELSE [t EXCEPT !.progressLog = TrimLog(Append(@, LogEntry(message)))]

\* task.status = status; Object.assign(task, extra); saveTask(task)
updateTaskStatus(t, status, extra) ==
  IF t = Absent THEN t
  ELSE [f \in DOMAIN t |->
          IF f \in DOMAIN extra THEN extra[f]
          ELSE IF f = "status" THEN status ELSE t[f]]

NoExtra == [x \in {} |-> 0]

createInitialTaskState ==
  [status |-> "initializing", worktreePath |-> "wt/svc/branch",
   claudeSessionId |-> None, prUrl |-> None, prNumber |-> None,
   error |-> None, costUsd |-> None, progressLog |-> <<>>]

RECURSIVE appendAll(_, _)
appendAll(t, messages) ==
  IF messages = <<>> THEN t
  ELSE appendAll(appendProgressLog(t, Head(messages)), Tail(messages))

StatusOf(t) == IF t = Absent THEN "absent" ELSE t.status

\* -------------------------------------------------------------- statuses
IMPL_STATUS_ORDER ==
  <<"initializing", "worktree_created", "dependencies_installed", "implementing",
    "implementation_complete", "pushing", "pr_created", "complete">>

FailureStatuses == {"error", "cancelled"}

\* statusOrder.indexOf(status) + 1; 0 when the status is not in the order
StatusIndex(status) ==
  IF \E i \in 1..Len(IMPL_STATUS_ORDER) : IMPL_STATUS_ORDER[i] = status
  THEN CHOOSE i \in 1..Len(IMPL_STATUS_ORDER) : IMPL_STATUS_ORDER[i] = status
  ELSE 0

\* ------------------------------------------------------------------ state
VARIABLES
  task,          \* LocalStorage "task:<key>": the task record, or Absent
  orchParams,    \* LocalStorage "orch:<key>": the orchestration parameters, or Absent
  cancelFlag,    \* LocalStorage "cancel:<key>" = "1"
  wtKind,        \* the worktree directory: "none", "tracking" (of origin/<branch>), "forked" (from base)
  remoteBranch,  \* the branch exists upstream
  planFile,      \* the plan file of the branch: None or Some(text)
  dirty,         \* the worktree holds uncommitted changes
  pc,            \* position of the background command RunOrchestration
  params,        \* the parameters the run read at its start
  aborted,       \* abortController.signal.aborted
  polling,       \* the 2 s cancellation interval is set
  snap,          \* feedback: the task record read by RunOrchestration
  review,        \* feedback: prAuthor and commentCutoffDate are both known
  events,        \* progress events the agent emitted in this run
  launches,      \* launches of the background command so far
  faults,        \* failures of external operations so far
  written,       \* history: the statuses this run passed to updateTaskStatus
  startStatus,   \* history: the status stored when the run started
  raisePoint,    \* history: an operation that can raise into the flow's catch ran under the stored status
  lastEdge,      \* history: the latest status write [from, to, raise]
  cancelAtAgent, \* history: the cancellation flag was set when the agent step ended
  raised,        \* history: what the flow's catch caught: None or Some([message, cancel])
  failed,        \* history: the external operations that failed in this run
  gitRepo,       \* per branch: its worktree, local branch, upstream branch, tree state, commits
  lastCall,      \* the latest call of a worktree service: [op, branch, ret, ops]
  calls,         \* calls of the worktree services so far
  created,       \* history: per branch, the path createWorktree returned since the last removal
  instructions,  \* prompt building: the instructions the run was dispatched with
  existingPlan,  \* prompt building: [read, plan]: whether readPlanFile ran, and what it returned
  prompt,        \* prompt building: None, or Some(the prompt handed to runClaude)
  lsTask,        \* two keys: LocalStorage "task:<key>" items
  lsOrch,        \* two keys: LocalStorage "orch:<key>" items
  lsCancel,      \* two keys: LocalStorage "cancel:<key>" = "1"
  runOf,         \* two keys: per key, [running, aborted] of its RunOrchestration
  lastOp,        \* two keys: the latest store operation [op, key, extra, raised, ret, all]
  storeOps,      \* two keys: store operations so far
  sanText,       \* sanitizing: the string given to sanitizeUnicode
  sanOut,        \* sanitizing: the results of applying sanitizeUnicode once, twice
  raceRec,       \* concurrent callers: the stored task record
  racers,        \* concurrent callers: per caller, the call in progress [phase, op, arg, local]
  raceDone,      \* history: the calls that have completed, in order of completion
  evRec,         \* agent events: the task record the progress entries are appended to
  evLast,        \* agent events: the latest event and the entries processSDKMessage made of it
  evCount,       \* agent events: the number of store writes made so far
  instIn,        \* installDependencies: the files present and the commands that fail
  instOut,       \* installDependencies: the commands run by the call, None before it
  markIn,        \* markNewCommentsAsAddressed: author, cutoff, comments, failing reactions
  markOut,       \* markNewCommentsAsAddressed: the reactions made and the count, None before
  requestedInRun, \* history: requestCancellation was called since this run was launched
  everRequested,  \* history: requestCancellation has been called for the key
  stepAfterAbort, \* history: a step of the flow has completed since the token was triggered
  bare,          \* history: no log entry was appended since the latest status write of this run
  unlogged,      \* history: statuses of this run whose next status write came with no entry between
  agentStart     \* history: what the agent step was started with [started, resume, stored, file, plan]

store == <<task, orchParams, cancelFlag>>
disk == <<wtKind, remoteBranch, planFile, dirty>>
run == <<pc, params, aborted, polling, snap, review, events>>
budget == <<launches, faults>>
hist == <<written, startStatus, raisePoint, lastEdge, cancelAtAgent, raised, failed>>
git == <<gitRepo, lastCall, calls, created>>
prm == <<instructions, existingPlan, prompt>>
kv == <<lsTask, lsOrch, lsCancel, runOf, lastOp, storeOps>>
txt == <<sanText, sanOut>>
gh == <<requestedInRun, everRequested, stepAfterAbort, bare, unlogged, agentStart>>
race == <<raceRec, racers, raceDone>>
ev == <<evRec, evLast, evCount>>
inst == <<instIn, instOut>>
mark == <<markIn, markOut>>
fn == <<ev, inst, mark>>
others == <<git, prm, kv, txt, race, fn>>
aux == <<others, gh>>
vars == <<store, disk, run, budget, hist, aux>>

NoEdge == [from |-> "none", to |-> "none", raise |-> TRUE]

PlanText == <<"1. do this", "2. do that">>

\* the branches the worktree services are called for
Branches == {"fix-timeout-ENG-42", "feat/login"}

\* a branch with no worktree, no local branch, nothing upstream
NoTree == [kind |-> "none", local |-> FALSE, remote |-> FALSE, dirty |-> FALSE, commits |-> 0]

NoCall == [op |-> "none", branch |-> "none", ret |-> "none", ops |-> <<>>]

GitIdle ==
  /\ gitRepo = [b \in Branches |-> NoTree]
  /\ lastCall = NoCall /\ calls = 0
  /\ created = [b \in Branches |-> None]

NotRead == [read |-> FALSE, plan |-> None]

PromptIdle == instructions = <<>> /\ existingPlan = NotRead /\ prompt = None

\* the keys of the two-key store
Keys == {"ENG-42", "ENG-7"}

\* `task:${task.issueKey}` of a value without an issueKey is "task:undefined"
TaskKeys == Keys \cup {"undefined"}

NoItem == [kind |-> "none"]

NoOp == [op |-> "none", key |-> "none", extra |-> NoExtra, raised |-> FALSE, ret |-> Absent, all |-> {}]

StoreIdle ==
  /\ lsTask = [k \in TaskKeys |-> NoItem]
  /\ lsOrch = [k \in Keys |-> NoItem]
  /\ lsCancel = [k \in Keys |-> FALSE]
  /\ runOf = [k \in Keys |-> [running |-> FALSE, aborted |-> FALSE]]
  /\ lastOp = NoOp /\ storeOps = 0

TextIdle == sanText = <<>> /\ sanOut = <<>>

\* the callers that share one key: a run and a form (or a second run)
Callers == {"run", "form"}

NoCallInProgress == [phase |-> "idle", op |-> "none", arg |-> <<>>, local |-> Absent]

RaceIdle ==
  /\ raceRec = Absent
  /\ racers = [c \in Callers |-> NoCallInProgress]
  /\ raceDone = <<>>

\* no event processed, no call of installDependencies or
\* markNewCommentsAsAddressed made
NoEvent == [event |-> [type |-> "none"], entries |-> <<>>]

EventsIdle == evRec = Absent /\ evLast = NoEvent /\ evCount = 0

InstallIdle == instIn = [files |-> {}, fails |-> {}] /\ instOut = None

MarkIdle == markIn = [prAuthor |-> "none"] /\ markOut = None

FnIdle == EventsIdle /\ InstallIdle /\ MarkIdle

NoAgent == [started |-> FALSE, resume |-> None, stored |-> None, file |-> None, plan |-> None]

GhostIdle ==
  /\ requestedInRun = FALSE /\ everRequested = FALSE /\ stepAfterAbort = FALSE
  /\ bare = FALSE /\ unlogged = {} /\ agentStart = NoAgent

InitAux == GitIdle /\ PromptIdle /\ StoreIdle /\ TextIdle /\ RaceIdle /\ FnIdle /\ GhostIdle

\* no task stored, no run started
InitRun ==
  /\ task = Absent /\ orchParams = Absent /\ cancelFlag = FALSE
  /\ wtKind = "none" /\ remoteBranch = FALSE /\ planFile = None /\ dirty = FALSE
  /\ pc = "idle" /\ params = Absent /\ aborted = FALSE /\ polling = FALSE
  /\ snap = Absent /\ review = FALSE /\ events = 0
  /\ launches = 0 /\ faults = 0
  /\ written = <<>> /\ startStatus = "absent" /\ raisePoint = FALSE
  /\ lastEdge = NoEdge /\ cancelAtAgent = FALSE /\ raised = None /\ failed = <<>>

Init == InitRun /\ InitAux

Idle == pc = "idle"

\* a run is active from its launch until its finally block has cleared the flag
RunActive == pc \notin {"idle", "done"}

\* ------------------------------------------------------- the views (callers)
\* ContextForm.handleSubmit: saveTask(createInitialTaskState), saveOrchestrationParams, launchCommand
ContextFormSubmit(mode, userInstructions, updateExistingPlan) ==
  /\ Idle /\ launches < MaxRuns
  /\ task' = createInitialTaskState
  /\ orchParams' = [mode |-> mode, issue |-> "ENG-42", repoName |-> "svc",
                    branchName |-> "fix-timeout-ENG-42", baseBranch |-> "main",
                    userInstructions |-> userInstructions,
                    updateExistingPlan |-> (mode = "plan" /\ updateExistingPlan)]
  /\ pc' = "launched" /\ launches' = launches + 1
  /\ UNCHANGED <<cancelFlag, disk, params, aborted, polling, snap, review, events, faults, hist>>
  /\ UNCHANGED aux

\* PlanFeedbackForm.handleSubmit: updateTaskStatus(planning), appendProgressLog,
\* saveOrchestrationParams(mode plan, updateExistingPlan), launchCommand
PlanFeedbackFormSubmit ==
  /\ Idle /\ launches < MaxRuns
  /\ StatusOf(task) = "plan_complete"
  /\ task' = appendProgressLog(updateTaskStatus(task, "planning", NoExtra),
                               <<"Plan feedback submitted - updating plan...">>)
  /\ orchParams' = [mode |-> "plan", issue |-> "ENG-42", repoName |-> "svc",
                    branchName |-> "fix-timeout-ENG-42", baseBranch |-> "main",
                    userInstructions |-> <<"revise the plan">>,
                    updateExistingPlan |-> TRUE]
  /\ pc' = "launched" /\ launches' = launches + 1
  /\ UNCHANGED <<cancelFlag, disk, params, aborted, polling, snap, review, events, faults, hist>>
  /\ UNCHANGED aux

\* ExecutionProgress, action "Implement Plan": launchCommand alone
ImplementPlanAction ==
  /\ Idle /\ launches < MaxRuns
  /\ StatusOf(task) = "plan_complete"
  /\ pc' = "launched" /\ launches' = launches + 1
  /\ UNCHANGED <<store, disk, params, aborted, polling, snap, review, events, faults, hist>>
  /\ UNCHANGED aux

\* FeedbackForm.handleSubmit with autoImplement: find or create the task record,
\* updateTaskStatus(feedback_implementing), appendProgressLog, saveOrchestrationParams, launchCommand
FeedbackFormSubmit(postAsComment) ==
  /\ Idle /\ launches < MaxRuns
  /\ LET found == IF task = Absent
                  THEN [createInitialTaskState EXCEPT !.prUrl = Some("https://gh/pr"),
                                                      !.prNumber = Some(PrNumber)]
                  ELSE task
     IN task' = appendProgressLog(updateTaskStatus(found, "feedback_implementing", NoExtra),
                                  <<"Feedback submitted - starting implementation...">>)
  /\ orchParams' = [mode |-> "feedback", issueKey |-> "ENG-42", repoName |-> "svc",
                    feedbackText |-> <<"fix the review comments">>,
                    postAsComment |-> postAsComment]
  /\ pc' = "launched" /\ launches' = launches + 1
  /\ UNCHANGED <<cancelFlag, disk, params, aborted, polling, snap, review, events, faults, hist>>
  /\ UNCHANGED aux

\* ExecutionProgress, action "Cancel Task": requestCancellation(issueKey)
RequestCancellation ==
  /\ task # Absent
  /\ ~cancelFlag \/ (RunActive /\ ~requestedInRun)
  /\ cancelFlag' = TRUE
  /\ requestedInRun' = (requestedInRun \/ RunActive)
  /\ everRequested' = TRUE
  /\ UNCHANGED <<task, orchParams, disk, run, budget, hist>>
  /\ UNCHANGED <<others, stepAfterAbort, bare, unlogged, agentStart>>

\* removeTask(issueKey), housekeeping outside a run
RemoveTask ==
  /\ pc = "launched"
  /\ task # Absent
  /\ faults < MaxFaults
  /\ task' = Absent /\ faults' = faults + 1
  /\ UNCHANGED <<orchParams, cancelFlag, disk, run, launches, hist>>
  /\ UNCHANGED aux

\* --------------------------------------------------- the background command
Mode == IF params = Absent THEN "none" ELSE params.mode

\* what no step of a flow changes; the agent step alone sets agentStart
AgentFrame ==
  UNCHANGED <<orchParams, cancelFlag, params, aborted, polling, snap, launches, startStatus,
              others, requestedInRun, everRequested>>

RunFrame == AgentFrame /\ UNCHANGED agentStart

LogLen(t) == IF t = Absent THEN 0 ELSE Len(t.progressLog)

\* one step of a flow: the record it leaves, the status it passed to
\* updateTaskStatus (<<>> when none), the next position, and whether the
\* operation it waited for can raise into the flow's catch
\* t1 is the record on which the status write was made: the entries the step
\* appended before the write are in t1, those after it in t2 only
EffectAt(t1, t2, wr, nextPc, canRaise) ==
  /\ task' = t2
  /\ pc' = nextPc
  /\ written' = written \o wr
  /\ raisePoint' = IF wr # <<>> THEN FALSE ELSE (raisePoint \/ canRaise)
  /\ lastEdge' = IF wr # <<>>
                 THEN [from |-> StatusOf(task), to |-> wr[1], raise |-> (raisePoint \/ canRaise)]
                 ELSE lastEdge
  /\ stepAfterAbort' = aborted
  /\ IF wr # <<>>
     THEN /\ unlogged' = IF bare /\ LogLen(t1) = LogLen(task) /\ task # Absent
                         THEN unlogged \cup {written[Len(written)]} ELSE unlogged
          /\ bare' = (LogLen(t2) = LogLen(t1))
     ELSE /\ unlogged' = unlogged
          /\ bare' = (bare /\ LogLen(t2) = LogLen(task))

\* a step that appends nothing before its status write
Effect(t2, wr, nextPc, canRaise) == EffectAt(task, t2, wr, nextPc, canRaise)

Succeeds == UNCHANGED <<faults, failed>>

Fails(op) ==
  /\ faults < MaxFaults
  /\ faults' = faults + 1
  /\ failed' = Append(failed, op)

\* where control goes when an orchestrate* function returns: orchestratePlan is
\* followed by the hand-off save, the others by the finally block
FlowEnd == IF Mode = "plan" THEN "handoff" ELSE "finally"

\* a faulty variant: the catch block reports every failure as a cancellation
CatchStatusAlwaysCancelled(ab) == "cancelled"

\* catch (error) of orchestrateImplementation / orchestratePlan / orchestrateFeedback
CatchStatus(ab) == IF ab THEN "cancelled" ELSE "error"

CatchRecord(t, ab, message) ==
  IF CatchStatus(ab) = "cancelled"
  THEN appendProgressLog(updateTaskStatus(t, "cancelled", NoExtra), <<"Task cancelled by user">>)
  ELSE appendProgressLog(updateTaskStatus(t, "error", [error |-> Some(message)]),
                         <<"Error: ">> \o message)

RaiseFrom(t, message, byCancel) ==
  /\ EffectAt(t, CatchRecord(t, aborted, message), <<CatchStatus(aborted)>>, FlowEnd, TRUE)
  /\ raised' = Some([message |-> message, cancel |-> byCancel])

Raise(message, byCancel) == RaiseFrom(task, message, byCancel)

\* RunOrchestration up to the first external operation of the flow
RunStart ==
  /\ pc = "launched"
  /\ IF orchParams = Absent
     THEN /\ pc' = "done"
          /\ UNCHANGED <<store, disk, params, aborted, polling, snap, review, events, budget, hist>>
          /\ UNCHANGED gh
     ELSE /\ params' = orchParams
          /\ stepAfterAbort' = FALSE /\ bare' = FALSE /\ unlogged' = {}
          /\ agentStart' = NoAgent
          /\ UNCHANGED <<requestedInRun, everRequested>>
          /\ aborted' = FALSE /\ polling' = TRUE
          /\ events' = 0 /\ review' = FALSE
          /\ written' = <<>> /\ startStatus' = StatusOf(task) /\ raisePoint' = FALSE
          /\ lastEdge' = NoEdge /\ cancelAtAgent' = FALSE /\ raised' = None
          /\ UNCHANGED <<orchParams, cancelFlag, disk, launches>>
          /\ \E repoFound \in BOOLEAN :
               IF ~repoFound
               THEN /\ faults < MaxFaults /\ faults' = faults + 1
                    /\ failed' = <<"config.repos.find">>
                    /\ pc' = "finally"
                    /\ UNCHANGED <<task, snap>>
               ELSE /\ faults' = faults /\ failed' = <<>>
                    /\ IF orchParams.mode = "feedback"
                       THEN /\ snap' = task
                            /\ task' = task
                            /\ pc' = IF task = Absent THEN "finally"
                                     ELSE IF orchParams.postAsComment
                                             /\ orchParams.feedbackText # <<>>
                                             /\ task.prNumber # None
                                          THEN "addPRComment"
                                          ELSE "fsAccess"
                       ELSE /\ snap' = Absent
                            /\ task' = appendProgressLog(task, <<"Creating git worktree...">>)
                            /\ pc' = "createWorktree"
  /\ UNCHANGED others

\* the setInterval callback: abort once the flag is read as set
PollTick ==
  /\ polling
  /\ cancelFlag
  /\ aborted' = TRUE /\ polling' = FALSE
  /\ UNCHANGED <<store, disk, pc, params, snap, review, events, budget, hist>>
  /\ UNCHANGED aux

\* ------------------------------------------- orchestrateImplementation / Plan
WorktreePath == "wt/svc/branch"

\* a faulty variant: a new worktree is always forked from the base branch
createWorktreeKindForking(kind, branchExistsRemotely) ==
  IF kind # "none" THEN kind ELSE "forked"

\* createWorktree: reuse an existing directory, else track origin/<branch> when
\* it exists upstream, else fork from origin/<baseBranch>
createWorktreeKind(kind, branchExistsRemotely) ==
  IF kind # "none" THEN kind
  ELSE IF branchExistsRemotely THEN "tracking" ELSE "forked"

WorktreeCreated(t) ==
  appendProgressLog(updateTaskStatus(t, "worktree_created", [worktreePath |-> WorktreePath]),
                    <<"Worktree created at ", WorktreePath>>)

CreateWorktreeStep(ok) ==
  /\ pc = "createWorktree"
  /\ IF ok
     THEN /\ wtKind' = createWorktreeKind(wtKind, remoteBranch)
          /\ Effect(WorktreeCreated(task), <<"worktree_created">>, "transitionIssue", TRUE)
          /\ Succeeds /\ UNCHANGED raised
     ELSE /\ Fails("createWorktree") /\ Raise(<<"git worktree add failed">>, FALSE)
          /\ UNCHANGED wtKind
  /\ RunFrame
  /\ UNCHANGED <<remoteBranch, planFile, dirty, review, events, cancelAtAgent>>

InstallingLog(t) == appendProgressLog(t, <<"Installing dependencies...">>)

\* transitionIssue(issue.id, "In Progress") in its own try/catch
TransitionIssueStep(ok) ==
  /\ pc = "transitionIssue"
  /\ LET t1 == IF ok THEN appendProgressLog(task, <<"Linear issue moved to In Progress">>)
               ELSE appendProgressLog(task, <<"Warning: Failed to transition Linear issue to In Progress">>)
     IN IF params.userInstructions # <<>>
        THEN Effect(t1, <<>>, "addLinearComment", FALSE)
        ELSE Effect(InstallingLog(t1), <<>>, "installDependencies", FALSE)
  /\ IF ok THEN Succeeds ELSE Fails("transitionIssue")
  /\ RunFrame
  /\ UNCHANGED <<disk, review, events, cancelAtAgent, raised>>

\* addLinearComment(extra context) in its own try/catch
AddLinearCommentStep(ok) ==
  /\ pc = "addLinearComment"
  /\ LET t1 == IF ok THEN appendProgressLog(task, <<"Extra context posted to Linear">>)
               ELSE appendProgressLog(task, <<"Warning: Failed to post extra context to Linear">>)
     IN Effect(InstallingLog(t1), <<>>, "installDependencies", FALSE)
  /\ IF ok THEN Succeeds ELSE Fails("addLinearComment")
  /\ RunFrame
  /\ UNCHANGED <<disk, review, events, cancelAtAgent, raised>>

\* a variant that lets the failure of the install command reach the caller
installDependenciesSurfacing(commandOk) == ~commandOk

\* installDependencies catches the failure of every install command: it
\* returns normally whether or not the command succeeded
installDependenciesRaises(commandOk) == FALSE

InstallDependenciesStep(commandOk) ==
  /\ pc = "installDependencies"
  /\ IF commandOk THEN Succeeds ELSE Fails("installDependencies")
  /\ IF installDependenciesRaises(commandOk)
     THEN Raise(<<"install failed">>, FALSE)
     ELSE /\ Effect(appendProgressLog(updateTaskStatus(task, "dependencies_installed", NoExtra),
                                      <<"Dependencies installed">>),
                    <<"dependencies_installed">>, "fetchFigmaContext", installDependenciesRaises(commandOk))
          /\ UNCHANGED raised
  /\ RunFrame
  /\ UNCHANGED <<disk, review, events, cancelAtAgent>>

\* fetchFigmaContext is a stub returning []; then the status of the agent phase
FetchFigmaContextStep ==
  /\ pc = "fetchFigmaContext"
  /\ IF Mode = "implement"
     THEN Effect(appendProgressLog(updateTaskStatus(task, "implementing", NoExtra),
                                   <<"Starting Claude Code implementation...">>),
                 <<"implementing">>, "readPlanFile", FALSE)
     ELSE Effect(updateTaskStatus(task, "planning", NoExtra), <<"planning">>,
                 "ensurePlanFilesDir", FALSE)
  /\ Succeeds /\ RunFrame
  /\ UNCHANGED <<disk, review, events, cancelAtAgent, raised>>

\* ensurePlanFilesDir (fs.mkdir) of the plan flow
EnsurePlanFilesDirStep(ok) ==
  /\ pc = "ensurePlanFilesDir"
  /\ IF ok
     THEN /\ IF params.updateExistingPlan
             THEN Effect(task, <<>>, "readPlanFile", TRUE)
             ELSE Effect(appendProgressLog(task, <<"Starting Claude Code planning session...">>),
                         <<>>, "runClaude", TRUE)
          /\ Succeeds /\ UNCHANGED raised
     ELSE Fails("ensurePlanFilesDir") /\ Raise(<<"mkdir failed">>, FALSE)
  /\ RunFrame
  /\ UNCHANGED <<disk, review, events, cancelAtAgent>>

\* readPlanFile never raises: a missing file reads as null
ReadPlanFileStep ==
  /\ pc = "readPlanFile"
  /\ LET line == IF Mode = "implement"
                 THEN IF planFile # None
                      THEN <<<<"Found existing plan file - including in prompt">>>>
                      ELSE <<>>
                 ELSE IF planFile # None
                      THEN <<<<"Updating existing plan based on feedback...">>>>
                      ELSE <<<<"No existing plan found, creating new plan...">>>>
     IN Effect(appendAll(task, line), <<>>, "runClaude", FALSE)
  /\ Succeeds /\ RunFrame
  /\ UNCHANGED <<disk, review, events, cancelAtAgent, raised>>

\* ---------------------------------------------------------------- runClaude
\* the catch of runClaude rethrows every error with diagnostics appended
runClaudeDiagnostics(msg) == msg \o <<"\nenv.HOME=/Users/u", "\ncli=cli.js">>

AgentOutcomes == {"success", "error", "error_without_details"}

\* is_error && errors?.length: only then does runClaude throw
runClaudeThrows(outcome) == outcome = "error"

ResultLine(outcome) ==
  <<"[result] ", IF outcome = "success" THEN "success" ELSE "error", " - turns, cost">>

\* a faulty variant: every flow writes pushing after the agent step, as the
\* feedback flow does
AgentDoneAsPushing(t, mode, sessionId, costUsd, priorCost) ==
  appendProgressLog(
    updateTaskStatus(t, "pushing",
                     [costUsd |-> Some(priorCost + costUsd), claudeSessionId |-> Some(sessionId)]),
    <<"Feedback implemented, committing & pushing...">>)

\* the record after a result the flow accepts
AgentDone(t, mode, sessionId, costUsd, priorCost) ==
  IF mode = "implement"
  THEN appendProgressLog(
         updateTaskStatus(t, "implementation_complete",
                          [claudeSessionId |-> Some(sessionId), costUsd |-> Some(costUsd)]),
         <<"Implementation complete (cost)">>)
  ELSE IF mode = "plan"
  THEN appendProgressLog(
         updateTaskStatus(t, "plan_complete",
                          [claudeSessionId |-> Some(sessionId), costUsd |-> Some(costUsd)]),
         <<"Plan complete (cost). Plan file: ", "plans/branch-plan.md">>)
  ELSE appendProgressLog(
         updateTaskStatus(t, "pushing",
                          [costUsd |-> Some(priorCost + costUsd), claudeSessionId |-> Some(sessionId)]),
         <<"Feedback implemented, committing & pushing...">>)

AgentDoneStatus(mode) ==
  IF mode = "implement" THEN "implementation_complete"
  ELSE IF mode = "plan" THEN "plan_complete" ELSE "pushing"

\* a faulty variant: the plan flow goes on to the push phase like the
\* implement flow
AgentDonePcAlwaysPush(mode) ==
  IF mode = "feedback" THEN "commitAllChanges" ELSE "notifyPushing"

\* where the flow goes after the agent step: orchestratePlan ends there
AgentDonePc(mode) ==
  IF mode = "implement" THEN "notifyPushing"
  ELSE IF mode = "plan" THEN "handoff" ELSE "commitAllChanges"

PriorCost == IF snap = Absent \/ snap.costUsd = None THEN 0 ELSE snap.costUsd[1]

\* the text of the n-th assistant message, as processSDKMessage formats it
AgentText(n) == <<"[claude] ", ToString(n)>>

\* a progress event of the agent, logged through onProgress
AgentProgress ==
  /\ pc = "runClaude"
  /\ events < MaxAppends
  /\ events' = events + 1
  /\ task' = appendProgressLog(task, AgentText(events + 1))
  /\ UNCHANGED <<orchParams, cancelFlag, disk, pc, params, aborted, polling, snap, review, budget, hist>>
  /\ UNCHANGED aux

\* a faulty variant: every flow resumes the session stored on the record
resumeSessionIdStored(mode, t) == IF t = Absent THEN None ELSE t.claudeSessionId

\* runClaude({resumeSessionId}): only orchestrateFeedback passes it, from the
\* record RunOrchestration read at its start
resumeSessionId(mode, t) == IF mode = "feedback" THEN t.claudeSessionId ELSE None

\* the plan text the prompt of the agent carries: the implement flow appends
\* it to the instructions, which buildIssueHeader trims; the plan flow puts
\* it in buildPlanUpdatePrompt when updateExistingPlan is set
planInPrompt(mode, p, file) ==
  IF file = None \/ file[1] = <<>> THEN None
  ELSE IF mode = "implement" THEN Some(trimEnd(file[1]))
  ELSE IF mode = "plan" /\ p.updateExistingPlan THEN file
  ELSE None

\* the end of the agent step: the SDK raises when the token is triggered, else
\* the result event decides. An implementing agent leaves changes in the tree;
\* a planning agent may or may not have written the plan file. The progress
\* events before the result are the subject of SpecLog.
AgentFinish(outcome, wrote) ==
  /\ pc = "runClaude"
  /\ Mode # "plan" => wrote
  /\ cancelAtAgent' = cancelFlag
  /\ IF aborted
     THEN /\ Raise(runClaudeDiagnostics(<<"Claude Code process aborted by user">>), TRUE)
          /\ Succeeds
          /\ UNCHANGED <<planFile, dirty>>
     ELSE LET t1 == appendProgressLog(task, ResultLine(outcome))
          IN /\ IF outcome = "success" THEN Succeeds ELSE Fails("runClaude")
             /\ IF runClaudeThrows(outcome)
                THEN /\ RaiseFrom(t1, runClaudeDiagnostics(<<"error_during_execution">>), FALSE)
                     /\ UNCHANGED <<planFile, dirty>>
                ELSE /\ EffectAt(t1, AgentDone(t1, Mode, launches, AgentCost, PriorCost),
                                 <<AgentDoneStatus(Mode)>>, AgentDonePc(Mode), TRUE)
                     /\ UNCHANGED raised
                     /\ IF Mode = "plan"
                        THEN /\ planFile' = IF wrote THEN Some(PlanText) ELSE planFile
                             /\ UNCHANGED dirty
                        ELSE /\ dirty' = wrote
                             /\ UNCHANGED planFile
  /\ agentStart' = [started |-> TRUE,
                     resume |-> resumeSessionId(Mode, snap),
                     stored |-> IF task = Absent THEN None ELSE task.claudeSessionId,
                     file |-> planFile,
                     plan |-> planInPrompt(Mode, params, planFile)]
  /\ AgentFrame
  /\ UNCHANGED <<wtKind, remoteBranch, review, events>>

\* ------------------------------------------------ commit, push, pull request
\* await notify(...) between implementation_complete and pushing
NotifyPushingStep ==
  /\ pc = "notifyPushing"
  /\ Effect(updateTaskStatus(task, "pushing", NoExtra), <<"pushing">>, "commitAllChanges", FALSE)
  /\ Succeeds /\ RunFrame
  /\ UNCHANGED <<disk, review, events, cancelAtAgent, raised>>

CommitOutcomes == {"ok", "prettier_failed", "git_failed"}

\* commitAllChanges after the agent step (implement and feedback): prettier is
\* best effort, git add / git commit raise; didCommit is whether the tree was dirty
CommitAllChangesStep(outcome) ==
  /\ pc = "commitAllChanges"
  /\ outcome = "prettier_failed" => dirty
  /\ IF outcome = "git_failed"
     THEN /\ Fails("commitAllChanges") /\ Raise(<<"git commit failed">>, FALSE)
          /\ UNCHANGED dirty
     ELSE /\ IF outcome = "ok" THEN Succeeds ELSE Fails("prettier")
          /\ dirty' = FALSE
          /\ LET t1 == IF dirty
                       THEN appendProgressLog(task, <<"Committed remaining uncommitted changes">>)
                       ELSE task
             IN IF Mode = "implement"
                THEN Effect(appendProgressLog(t1, <<"Pushing branch to origin...">>),
                            <<>>, "pushBranch", TRUE)
                ELSE Effect(t1, <<>>, "pushBranch", TRUE)
          /\ UNCHANGED raised
  /\ RunFrame
  /\ UNCHANGED <<wtKind, remoteBranch, planFile, review, events, cancelAtAgent>>

PushBranchStep(ok) ==
  /\ pc = "pushBranch"
  /\ IF ok
     THEN /\ remoteBranch' = TRUE
          /\ Succeeds /\ UNCHANGED raised
          /\ IF Mode = "implement"
             THEN Effect(appendAll(task, <<<<"Branch pushed">>, <<"Creating pull request...">>>>),
                         <<>>, "createPullRequest", TRUE)
             ELSE LET t1 == appendProgressLog(task, <<"Feedback changes pushed">>)
                  IN IF snap.prNumber # None /\ review
                     THEN Effect(t1, <<>>, "markComments", TRUE)
                     ELSE EffectAt(t1, updateTaskStatus(t1, "complete", NoExtra), <<"complete">>,
                                   FlowEnd, TRUE)
     ELSE /\ Fails("pushBranch") /\ Raise(<<"git push rejected">>, FALSE)
          /\ UNCHANGED remoteBranch
  /\ RunFrame
  /\ UNCHANGED <<wtKind, planFile, dirty, review, events, cancelAtAgent>>

\* the response of the code host to POST /pulls
CreatedPr == [html_url |-> "https://gh/pr", number |-> PrNumber]

\* a faulty variant: the patch of pr_created without the URL
PrPatchWithoutUrl(pr) == [prNumber |-> Some(pr.number)]

\* { prUrl: pr.html_url, prNumber: pr.number }
PrPatch(pr) == [prUrl |-> Some(pr.html_url), prNumber |-> Some(pr.number)]

CreatePullRequestStep(ok) ==
  /\ pc = "createPullRequest"
  /\ IF ok
     THEN /\ Effect(appendProgressLog(updateTaskStatus(task, "pr_created", PrPatch(CreatedPr)),
                                      <<"PR created: ", CreatedPr.html_url>>),
                    <<"pr_created">>, "transitionInReview", TRUE)
          /\ Succeeds /\ UNCHANGED raised
     ELSE Fails("createPullRequest") /\ Raise(<<"GitHub API 422">>, FALSE)
  /\ RunFrame
  /\ UNCHANGED <<disk, review, events, cancelAtAgent>>

\* transitionIssue(issue.id, "In Review") in its own try/catch
TransitionInReviewStep(ok) ==
  /\ pc = "transitionInReview"
  /\ Effect(IF ok THEN appendProgressLog(task, <<"Linear issue moved to In Review">>)
            ELSE appendProgressLog(task, <<"Warning: Failed to transition Linear issue to In Review">>),
            <<>>, "addLinearCommentPr", FALSE)
  /\ IF ok THEN Succeeds ELSE Fails("transitionIssue")
  /\ RunFrame
  /\ UNCHANGED <<disk, review, events, cancelAtAgent, raised>>

\* addLinearComment(pull request created) in its own try/catch, then complete
AddLinearCommentPrStep(ok) ==
  /\ pc = "addLinearCommentPr"
  /\ LET t1 == IF ok THEN appendProgressLog(task, <<"Linear comment added">>)
               ELSE appendProgressLog(task, <<"Warning: Failed to add Linear comment">>)
     IN EffectAt(t1, appendProgressLog(updateTaskStatus(t1, "complete", NoExtra), <<"Task complete!">>),
                 <<"complete">>, FlowEnd, FALSE)
  /\ IF ok THEN Succeeds ELSE Fails("addLinearComment")
  /\ RunFrame
  /\ UNCHANGED <<disk, review, events, cancelAtAgent, raised>>

\* -------------------------------------------------------- orchestrateFeedback
\* addPRComment(feedbackText) at the head of the flow, inside the flow's try
addPRCommentRaises(ok) == ~ok

FeedbackAddPRCommentStep(ok) ==
  /\ pc = "addPRComment"
  /\ IF ok THEN Succeeds ELSE Fails("addPRComment")
  /\ IF addPRCommentRaises(ok)
     THEN Raise(<<"GitHub API 403">>, FALSE)
     ELSE /\ Effect(IF ok THEN appendProgressLog(task, <<"Feedback posted as GitHub comment">>)
                    ELSE task,
                    <<>>, "fsAccess", TRUE)
          /\ UNCHANGED raised
  /\ RunFrame
  /\ UNCHANGED <<disk, review, events, cancelAtAgent>>

\* fs.access(task.worktreePath): recreate the worktree when it is gone
FsAccessStep ==
  /\ pc = "fsAccess"
  /\ IF wtKind # "none"
     THEN Effect(task, <<>>, "commitLocal", FALSE)
     ELSE Effect(appendProgressLog(task, <<"Recreating worktree...">>), <<>>,
                 "recreateWorktree", FALSE)
  /\ Succeeds /\ RunFrame
  /\ UNCHANGED <<disk, review, events, cancelAtAgent, raised>>

RecreateWorktreeStep(ok) ==
  /\ pc = "recreateWorktree"
  /\ IF ok
     THEN /\ wtKind' = createWorktreeKind(wtKind, remoteBranch)
          /\ Effect(updateTaskStatus(task, "worktree_created", [worktreePath |-> WorktreePath]),
                    <<"worktree_created">>, "commitLocal", TRUE)
          /\ Succeeds /\ UNCHANGED raised
     ELSE /\ Fails("createWorktree") /\ Raise(<<"git worktree add failed">>, FALSE)
          /\ UNCHANGED wtKind
  /\ RunFrame
  /\ UNCHANGED <<remoteBranch, planFile, dirty, review, events, cancelAtAgent>>

\* commitAllChanges before the pull
CommitLocalStep(outcome) ==
  /\ pc = "commitLocal"
  /\ outcome = "prettier_failed" => dirty
  /\ IF outcome = "git_failed"
     THEN /\ Fails("commitAllChanges") /\ Raise(<<"git commit failed">>, FALSE)
          /\ UNCHANGED dirty
     ELSE /\ IF outcome = "ok" THEN Succeeds ELSE Fails("prettier")
          /\ dirty' = FALSE
          /\ LET t1 == IF dirty
                       THEN appendProgressLog(task, <<"Committed uncommitted local changes">>)
                       ELSE task
             IN Effect(appendProgressLog(t1, <<"Pulling latest changes from origin...">>),
                       <<>>, "pullBranch", TRUE)
          /\ UNCHANGED raised
  /\ RunFrame
  /\ UNCHANGED <<wtKind, remoteBranch, planFile, review, events, cancelAtAgent>>

FeedbackStarting(t) ==
  appendProgressLog(updateTaskStatus(t, "feedback_implementing", NoExtra),
                    <<"Starting Claude Code for feedback...">>)

\* pullBranch in its own try/catch
PullBranchStep(ok) ==
  /\ pc = "pullBranch"
  /\ LET t1 == IF ok THEN appendProgressLog(task, <<"Branch synced with origin">>)
               ELSE appendProgressLog(task, <<"Warning: Pull failed (", "conflict",
                                              "). Continuing with local state.">>)
     IN IF snap.prNumber # None
        THEN Effect(t1, <<>>, "fetchPR", FALSE)
        ELSE EffectAt(t1, FeedbackStarting(t1), <<"feedback_implementing">>, "runClaude", FALSE)
  /\ IF ok THEN Succeeds ELSE Fails("pullBranch")
  /\ RunFrame
  /\ UNCHANGED <<disk, review, events, cancelAtAgent, raised>>

\* fetchPullRequest + fetchPRCommits in their own try/catch: the author and
\* the date of the last commit (null when the PR has no commit)
FetchPRStep(ok, hasCommits) ==
  /\ pc = "fetchPR"
  /\ review' = (ok /\ hasCommits)
  /\ ~ok => ~hasCommits
  /\ Effect(FeedbackStarting(task), <<"feedback_implementing">>, "runClaude", FALSE)
  /\ IF ok THEN Succeeds ELSE Fails("fetchPullRequest")
  /\ RunFrame
  /\ UNCHANGED <<disk, events, cancelAtAgent, raised>>

MarkOutcomes == {"none_marked", "some_marked", "failed"}

\* markNewCommentsAsAddressed in its own try/catch, then complete
MarkCommentsStep(outcome) ==
  /\ pc = "markComments"
  /\ LET t1 == IF outcome = "some_marked"
               THEN appendProgressLog(task, <<"Marked ", "2", " comment(s) as addressed">>)
               ELSE IF outcome = "failed"
               THEN appendProgressLog(task, <<"Warning: Could not mark comments as addressed">>)
               ELSE task
     IN EffectAt(t1, updateTaskStatus(t1, "complete", NoExtra), <<"complete">>, FlowEnd, FALSE)
  /\ IF outcome = "failed" THEN Fails("markNewCommentsAsAddressed") ELSE Succeeds
  /\ RunFrame
  /\ UNCHANGED <<disk, review, events, cancelAtAgent, raised>>

\* ------------------------------------------- RunOrchestration after the flow
\* a faulty variant: the parameters saved back with their mode unchanged
ImplementParamsKeepingMode(p) == p

\* the parameters saved after orchestratePlan returns
ImplementParams(p) ==
  [mode |-> "implement", issue |-> p.issue, repoName |-> p.repoName,
   branchName |-> p.branchName, baseBranch |-> p.baseBranch,
   userInstructions |-> p.userInstructions]

HandOffStep ==
  /\ pc = "handoff"
  /\ orchParams' = ImplementParams(params)
  /\ pc' = "finally"
  /\ UNCHANGED <<task, cancelFlag, disk, params, aborted, polling, snap, review, events, budget, hist>>
  /\ UNCHANGED aux

\* a faulty variant: a finally block that never clears the parameters
KeepParams(mode, stored) == stored

\* finally: clearOrchestrationParams unless the mode was plan
ParamsAfterRun(mode, stored) == IF mode # "plan" THEN Absent ELSE stored

FinallyStep ==
  /\ pc = "finally"
  /\ polling' = FALSE
  /\ orchParams' = ParamsAfterRun(Mode, orchParams)
  /\ pc' = "clearCancellation"
  /\ UNCHANGED <<task, cancelFlag, disk, params, aborted, snap, review, events, budget, hist>>
  /\ UNCHANGED aux

\* clearCancellation(issueKey)
FlagAfterRun(flag) == FALSE

ClearCancellationStep ==
  /\ pc = "clearCancellation"
  /\ cancelFlag' = FlagAfterRun(cancelFlag)
  /\ pc' = "done"
  /\ UNCHANGED <<task, orchParams, disk, params, aborted, polling, snap, review, events, budget, hist>>
  /\ UNCHANGED aux

\* the background command returns and its process state is gone
RunExit ==
  /\ pc = "done"
  /\ pc' = "idle"
  /\ params' = Absent /\ aborted' = FALSE /\ snap' = Absent /\ review' = FALSE /\ events' = 0
  /\ written' = <<>> /\ startStatus' = "absent" /\ raisePoint' = FALSE
  /\ lastEdge' = NoEdge /\ cancelAtAgent' = FALSE /\ raised' = None /\ failed' = <<>>
  /\ requestedInRun' = FALSE /\ stepAfterAbort' = FALSE /\ UNCHANGED everRequested
  /\ bare' = FALSE /\ unlogged' = {} /\ agentStart' = NoAgent
  /\ UNCHANGED <<store, disk, polling, budget>>
  /\ UNCHANGED others

\* ------------------------------------------------------------ specification
Next ==
  \/ \E mode \in {"plan", "implement"}, instr \in {<<>>, <<"extra context">>},
        upd \in BOOLEAN :
       /\ upd => (mode = "plan" /\ planFile # None)
       /\ ContextFormSubmit(mode, instr, upd)
  \/ PlanFeedbackFormSubmit
  \/ ImplementPlanAction
  \/ \E postAsComment \in BOOLEAN : FeedbackFormSubmit(postAsComment)
  \/ RequestCancellation
  \/ RemoveTask
  \/ RunStart
  \/ PollTick
  \/ \E ok \in BOOLEAN : CreateWorktreeStep(ok)
  \/ \E ok \in BOOLEAN : TransitionIssueStep(ok)
  \/ \E ok \in BOOLEAN : AddLinearCommentStep(ok)
  \/ \E ok \in BOOLEAN : InstallDependenciesStep(ok)
  \/ FetchFigmaContextStep
  \/ \E ok \in BOOLEAN : EnsurePlanFilesDirStep(ok)
  \/ ReadPlanFileStep
  \/ \E outcome \in AgentOutcomes, wrote \in BOOLEAN : AgentFinish(outcome, wrote)
  \/ NotifyPushingStep
  \/ \E outcome \in CommitOutcomes : CommitAllChangesStep(outcome)
  \/ \E ok \in BOOLEAN : PushBranchStep(ok)
  \/ \E ok \in BOOLEAN : CreatePullRequestStep(ok)
  \/ \E ok \in BOOLEAN : TransitionInReviewStep(ok)
  \/ \E ok \in BOOLEAN : AddLinearCommentPrStep(ok)
  \/ \E ok \in BOOLEAN : FeedbackAddPRCommentStep(ok)
  \/ FsAccessStep
  \/ \E ok \in BOOLEAN : RecreateWorktreeStep(ok)
  \/ \E outcome \in CommitOutcomes : CommitLocalStep(outcome)
  \/ \E ok \in BOOLEAN : PullBranchStep(ok)
  \/ \E ok \in BOOLEAN, hasCommits \in BOOLEAN : FetchPRStep(ok, hasCommits)
  \/ \E outcome \in MarkOutcomes : MarkCommentsStep(outcome)
  \/ HandOffStep
  \/ FinallyStep
  \/ ClearCancellationStep
  \/ RunExit

Spec == Init /\ [][Next]_vars

\* ------------------------------------------- the log-bounding specification
\* an implement run in which every step has succeeded has reached the agent
\* step; the agent then emits progress events, each appended to the log
ImplementParamsAtStart ==
  [mode |-> "implement", issue |-> "ENG-42", repoName |-> "svc",
   branchName |-> "fix-timeout-ENG-42", baseBranch |-> "main",
   userInstructions |-> <<>>, updateExistingPlan |-> FALSE]

RecordAtAgentStep ==
  LET t1 == WorktreeCreated(appendProgressLog(createInitialTaskState, <<"Creating git worktree...">>))
      t2 == InstallingLog(appendProgressLog(t1, <<"Linear issue moved to In Progress">>))
      t3 == appendProgressLog(updateTaskStatus(t2, "dependencies_installed", NoExtra),
                              <<"Dependencies installed">>)
  IN appendProgressLog(updateTaskStatus(t3, "implementing", NoExtra),
                       <<"Starting Claude Code implementation...">>)

AtAgentStep ==
  /\ task = RecordAtAgentStep /\ orchParams = ImplementParamsAtStart /\ cancelFlag = FALSE
  /\ wtKind = "forked" /\ remoteBranch = FALSE /\ dirty = FALSE
  /\ pc = "runClaude" /\ params = ImplementParamsAtStart /\ aborted = FALSE /\ polling = TRUE
  /\ snap = Absent /\ review = FALSE
  /\ launches = 1 /\ faults = 0
  /\ written = <<"worktree_created", "dependencies_installed", "implementing">>
  /\ startStatus = "initializing" /\ raisePoint = FALSE
  /\ lastEdge = [from |-> "dependencies_installed", to |-> "implementing", raise |-> FALSE]
  /\ cancelAtAgent = FALSE /\ raised = None /\ failed = <<>>

InitLog == AtAgentStep /\ planFile = None /\ events = 0 /\ InitAux

NextLog == AgentProgress

SpecLog == InitLog /\ [][NextLog]_vars

\* ------------------------------------------------- the worktree services
\* path.join(worktreeBasePath, repoName, branchName)
getWorktreePath(repoName, branchName) == <<"wt", repoName, branchName>>

\* a faulty variant: the full creation sequence whether or not the worktree exists
createWorktreeOpsAlways(kind, branchExistsRemotely) ==
  <<"mkdir", "fetch", "rev-parse origin/<branch>",
    IF branchExistsRemotely THEN "worktree add --track -b <branch> origin/<branch>"
    ELSE "worktree add -b <branch> origin/<baseBranch>">>

\* the commands createWorktree runs, in order
createWorktreeOps(kind, branchExistsRemotely) ==
  IF kind # "none" THEN <<"fetch">>
  ELSE <<"mkdir", "fetch", "rev-parse origin/<branch>",
         IF branchExistsRemotely THEN "worktree add --track -b <branch> origin/<branch>"
         ELSE "worktree add -b <branch> origin/<baseBranch>">>

\* createWorktree on the state b of a branch: the state it leaves, what it
\* returns (<<"raise">> when a command fails) and the commands it ran.
\* git worktree add -b fails when the local branch already exists.
createWorktree(b, repoName, branchName, fetchOk) ==
  LET ops == createWorktreeOps(b.kind, b.remote)
  IN IF ~fetchOk
     THEN [tree |-> b, ret |-> <<"raise">>,
           ops |-> IF b.kind # "none" THEN <<"fetch">> ELSE <<"mkdir", "fetch">>]
     ELSE IF b.kind = "none" /\ b.local
     THEN [tree |-> b, ret |-> <<"raise">>, ops |-> ops]
     ELSE [tree |-> [b EXCEPT !.kind = createWorktreeKind(b.kind, b.remote), !.local = TRUE],
           ret |-> getWorktreePath(repoName, branchName), ops |-> ops]

PrettierOutcomes == {"formatted", "failed", "restores HEAD"}

\* a faulty variant: git commit --allow-empty without the staged-content test
commitAllChangesAlways(b, prettier, commitOk) ==
  [tree |-> [b EXCEPT !.dirty = FALSE, !.commits = @ + 1], ret |-> <<"true">>,
   ops |-> <<"git add -A", "git commit">>]

\* commitAllChanges on the state b of a branch: prettier on the changed files
\* (best effort), git add -A, git diff --cached --quiet, git commit
commitAllChanges(b, prettier, commitOk) ==
  LET changed == b.dirty
      format == IF changed THEN <<"git diff --name-only", "prettier --write">>
                ELSE <<"git diff --name-only">>
      staged == changed /\ prettier # "restores HEAD"
  IN IF ~staged
     THEN [tree |-> [b EXCEPT !.dirty = FALSE], ret |-> <<"false">>,
           ops |-> format \o <<"git add -A", "git diff --cached: clean">>]
     ELSE IF ~commitOk
     THEN [tree |-> b, ret |-> <<"raise">>,
           ops |-> format \o <<"git add -A", "git diff --cached: staged", "git commit">>]
     ELSE [tree |-> [b EXCEPT !.dirty = FALSE, !.commits = @ + 1], ret |-> <<"true">>,
           ops |-> format \o <<"git add -A", "git diff --cached: staged", "git commit">>]

Call(op, b, r) ==
  /\ calls < MaxCalls
  /\ calls' = calls + 1
  /\ gitRepo' = [gitRepo EXCEPT ![b] = r.tree]
  /\ lastCall' = [op |-> op, branch |-> b, ret |-> r.ret, ops |-> r.ops]
  /\ faults' = IF r.ret = <<"raise">> THEN faults + 1 ELSE faults
  /\ r.ret = <<"raise">> => faults < MaxFaults
  /\ UNCHANGED <<store, disk, run, launches, hist, prm, kv, txt, race, fn, gh>>

GitCreateWorktree(b, fetchOk) ==
  LET r == createWorktree(gitRepo[b], "svc", b, fetchOk)
  IN /\ Call("createWorktree", b, r)
     /\ created' = IF r.ret = <<"raise">> THEN created ELSE [created EXCEPT ![b] = Some(r.ret)]

\* removeWorktree: git worktree remove --force; the local branch stays
GitRemoveWorktree(b) ==
  /\ gitRepo[b].kind # "none"
  /\ Call("removeWorktree", b,
          [tree |-> [gitRepo[b] EXCEPT !.kind = "none", !.dirty = FALSE],
           ret |-> <<>>, ops |-> <<"worktree remove --force">>])
  /\ created' = [created EXCEPT ![b] = None]

\* the agent (or the user) changes a file of the worktree
GitEdit(b) ==
  /\ gitRepo[b].kind # "none" /\ ~gitRepo[b].dirty
  /\ gitRepo' = [gitRepo EXCEPT ![b].dirty = TRUE]
  /\ lastCall' = [op |-> "edit", branch |-> b, ret |-> <<>>, ops |-> <<>>]
  /\ UNCHANGED <<store, disk, run, budget, hist, calls, created, prm, kv, txt, race, fn, gh>>

GitCommitAllChanges(b, prettier, commitOk) ==
  /\ gitRepo[b].kind # "none"
  /\ Call("commitAllChanges", b, commitAllChanges(gitRepo[b], prettier, commitOk))
  /\ UNCHANGED created

\* pushBranch: git push <url> HEAD:refs/heads/<branch>
GitPushBranch(b, ok) ==
  /\ gitRepo[b].kind # "none"
  /\ Call("pushBranch", b,
          [tree |-> IF ok THEN [gitRepo[b] EXCEPT !.remote = TRUE] ELSE gitRepo[b],
           ret |-> IF ok THEN <<>> ELSE <<"raise">>, ops |-> <<"push">>])
  /\ UNCHANGED created

\* the repository before the first call: a branch may already exist upstream
InitGit ==
  /\ InitRun /\ PromptIdle /\ StoreIdle /\ TextIdle /\ RaceIdle /\ FnIdle /\ GhostIdle
  /\ gitRepo \in [Branches -> {[NoTree EXCEPT !.remote = r] : r \in BOOLEAN}]
  /\ lastCall = NoCall /\ calls = 0
  /\ created = [b \in Branches |-> None]

NextGit ==
  \/ \E b \in Branches, fetchOk \in BOOLEAN : GitCreateWorktree(b, fetchOk)
  \/ \E b \in Branches : GitRemoveWorktree(b)
  \/ \E b \in Branches : GitEdit(b)
  \/ \E b \in Branches, prettier \in PrettierOutcomes, commitOk \in BOOLEAN :
       GitCommitAllChanges(b, prettier, commitOk)
  \/ \E b \in Branches, ok \in BOOLEAN : GitPushBranch(b, ok)

SpecGit == InitGit /\ [][NextGit]_vars

\* ------------------------------------------------------- prompt building
\* a line of words separated by single blanks
RECURSIVE Words(_)
Words(ws) ==
  IF Len(ws) <= 1 THEN ws ELSE <<Head(ws), "SP">> \o Words(Tail(ws))

\* sections.join("\n")
RECURSIVE join(_)
join(sections) ==
  IF sections = <<>> THEN <<>>
  ELSE IF Len(sections) = 1 THEN Head(sections)
  ELSE Head(sections) \o <<"NL">> \o join(Tail(sections))

\* String.prototype.includes
includes(s, t) ==
  \E i \in 0..(Len(s) - Len(t)) : SubSeq(s, i + 1, i + Len(t)) = t

\* buildIssueHeader for an issue with a description, no comments and no
\* Figma context
buildIssueHeader(ctxInstructions) ==
  << Words(<<"#", "Task:", "ENG-42", "-", "title">>), <<>>,
     Words(<<"**Priority:**", "High">>), Words(<<"**Status:**", "Todo">>),
     Words(<<"**Repository:**", "svc">>), Words(<<"**Base", "branch:**", "main">>), <<>>,
     Words(<<"##", "Description">>), <<>>, Words(<<"the", "description">>), <<>> >>
  \o (IF trim(ctxInstructions) # <<>>
      THEN << Words(<<"##", "Additional", "Instructions">>), <<>>,
              trim(ctxInstructions), <<>> >>
      ELSE <<>>)

buildImplementationPrompt(ctxInstructions) ==
  join(buildIssueHeader(ctxInstructions)
       \o << Words(<<"##", "Your", "Task">>), <<>>,
             Words(<<"Implement", "the", "changes", "described", "above.">>), <<>> >>)

\* readPlanFile: the text of the file, null when it cannot be read
readPlanFile(file) == file

\* the instructions of the implement flow: the plan is appended when
\* readPlanFile returned a non-empty text
extraInstructions(userInstructions, plan) ==
  IF plan # None /\ plan[1] # <<>>
  THEN (IF userInstructions # <<>> THEN userInstructions \o <<"NL", "NL">> ELSE <<>>)
       \o Words(<<"##", "Implementation", "Plan">>) \o <<"NL", "NL">>
       \o Words(<<"A", "plan", "was", "prepared", "in", "a", "prior", "session.",
                  "Follow", "it", "closely:">>) \o <<"NL", "NL">>
       \o plan[1]
  ELSE userInstructions

\* the texts of at most n tokens over "step", "NL", "SP"
RECURSIVE Texts(_)
Texts(n) ==
  IF n = 0 THEN {<<>>}
  ELSE Texts(n - 1) \cup {Append(t, c) : t \in Texts(n - 1), c \in {"step", "NL", "SP"}}

InstructionTexts == {<<>>, <<"SP">>, Words(<<"keep", "it", "small">>)}

\* the implement flow reads the plan file on reaching the agent step
PromptReadPlanFile ==
  /\ ~existingPlan.read
  /\ existingPlan' = [read |-> TRUE, plan |-> readPlanFile(planFile)]
  /\ UNCHANGED <<store, disk, run, budget, hist, git, kv, txt, race, fn, gh, instructions, prompt>>

\* and builds the prompt it hands to runClaude
PromptBuild ==
  /\ existingPlan.read /\ prompt = None
  /\ prompt' = Some(buildImplementationPrompt(extraInstructions(instructions, existingPlan.plan)))
  /\ UNCHANGED <<store, disk, run, budget, hist, git, kv, txt, race, fn, gh, instructions, existingPlan>>

\* the implement flow on reaching the agent step: any plan file, or none
InitPrompt ==
  /\ AtAgentStep /\ events = 0 /\ GitIdle /\ StoreIdle /\ TextIdle /\ RaceIdle /\ FnIdle /\ GhostIdle
  /\ planFile \in {None} \cup {Some(t) : t \in Texts(MaxPlanLen)}
  /\ instructions \in InstructionTexts
  /\ existingPlan = NotRead /\ prompt = None

NextPrompt == PromptReadPlanFile \/ PromptBuild

SpecPrompt == InitPrompt /\ [][NextPrompt]_vars

\* ------------------------------------------------- the store, for two keys
\* LocalStorage holds strings. An item is absent, a text JSON.parse rejects,
\* or the JSON text of a value.
NotJson == [kind |-> "text"]
Json(v) == [kind |-> "json", value |-> v]

\* the value of the JSON text "{}": an object, but no task record
EmptyObject == [shape |-> "object"]

\* createInitialTaskState({issueKey, ...})
TaskFor(k) ==
  [f \in DOMAIN createInitialTaskState \cup {"issueKey"} |->
     IF f = "issueKey" THEN k ELSE createInitialTaskState[f]]

\* getTask: null for no item and for a text JSON.parse throws on
getTask(raw) == IF raw.kind = "json" THEN raw.value ELSE Absent

\* saveTask: setItem(`task:${task.issueKey}`, JSON.stringify(task))
saveTask(ls, t) ==
  LET k == IF "issueKey" \in DOMAIN t THEN t.issueKey ELSE "undefined"
  IN [ls EXCEPT ![k] = Json(t)]

\* a faulty variant: the write starts from an empty progress log
assignStatusDroppingLog(t, status, extra) ==
  [f \in DOMAIN t \cup {"status"} \cup DOMAIN extra |->
     IF f \in DOMAIN extra THEN extra[f]
     ELSE IF f = "status" THEN status
     ELSE IF f = "progressLog" THEN <<>> ELSE t[f]]

\* task.status = status on a parsed value, whatever its fields
assignStatus(t, status, extra) ==
  [f \in DOMAIN t \cup {"status"} \cup DOMAIN extra |->
     IF f \in DOMAIN extra THEN extra[f]
     ELSE IF f = "status" THEN status ELSE t[f]]

\* updateTaskStatus on the store: [ls, ret, raised]
storeUpdateTaskStatus(ls, k, status, extra) ==
  LET t == getTask(ls[k])
  IN IF t = Absent THEN [ls |-> ls, ret |-> Absent, raised |-> FALSE]
     ELSE [ls |-> saveTask(ls, assignStatus(t, status, extra)),
           ret |-> assignStatus(t, status, extra), raised |-> FALSE]

\* appendProgressLog on the store: task.progressLog.push raises a TypeError
\* when the parsed value has no progressLog
storeAppendProgressLog(ls, k, message) ==
  LET t == getTask(ls[k])
  IN IF t = Absent THEN [ls |-> ls, ret |-> Absent, raised |-> FALSE]
     ELSE IF "progressLog" \notin DOMAIN t
     THEN [ls |-> ls, ret |-> Absent, raised |-> TRUE]
     ELSE [ls |-> saveTask(ls, appendProgressLog(t, message)), ret |-> Absent, raised |-> FALSE]

\* getAllTasks: the parsed value of every "task:" item that parses
getAllTasks(ls) == {ls[k].value : k \in {j \in DOMAIN ls : ls[j].kind = "json"}}

\* a faulty variant: the poller reads the flag of any key
isCancellationRequestedAny(flags, k) == \E j \in DOMAIN flags : flags[j]

\* isCancellationRequested: getItem(`cancel:${issueKey}`) === "1"
isCancellationRequested(flags, k) == flags[k]

StoreFrame == UNCHANGED <<store, disk, run, budget, hist, git, prm, txt, race, fn, gh>>

\* one operation on the store for key k, extra being the patch it was given
StoreOpWith(op, k, extra, threw, ret, all) ==
  /\ storeOps < MaxStoreOps
  /\ storeOps' = storeOps + 1
  /\ lastOp' = [op |-> op, key |-> k, extra |-> extra, raised |-> threw, ret |-> ret, all |-> all]
  /\ StoreFrame

StoreOp(op, k, threw, ret, all) == StoreOpWith(op, k, NoExtra, threw, ret, all)

StoreGetTask(k) ==
  /\ StoreOp("getTask", k, FALSE, getTask(lsTask[k]), {})
  /\ UNCHANGED <<lsTask, lsOrch, lsCancel, runOf>>

\* saveTask(createInitialTaskState(...)) of the forms
StoreSaveTask(k) ==
  /\ lsTask' = saveTask(lsTask, TaskFor(k))
  /\ StoreOp("saveTask", k, FALSE, Absent, {})
  /\ UNCHANGED <<lsOrch, lsCancel, runOf>>

\* the patches the flows pass: none, the pull request, the error message
StorePatches ==
  {NoExtra, [prUrl |-> Some("https://gh/pr"), prNumber |-> Some(PrNumber)],
   [error |-> Some(<<"git push rejected">>)]}

StoreUpdateTaskStatus(k, status, extra) ==
  LET r == storeUpdateTaskStatus(lsTask, k, status, extra)
  IN /\ lsTask' = r.ls
     /\ StoreOpWith("updateTaskStatus", k, extra, r.raised, r.ret, {})
     /\ UNCHANGED <<lsOrch, lsCancel, runOf>>

StoreAppendProgressLog(k) ==
  LET r == storeAppendProgressLog(lsTask, k, <<"line">>)
  IN /\ lsTask' = r.ls
     /\ StoreOp("appendProgressLog", k, r.raised, r.ret, {})
     /\ UNCHANGED <<lsOrch, lsCancel, runOf>>

StoreGetAllTasks ==
  /\ StoreOp("getAllTasks", "none", FALSE, Absent, getAllTasks(lsTask))
  /\ UNCHANGED <<lsTask, lsOrch, lsCancel, runOf>>

StoreRemoveTask(k) ==
  /\ lsTask[k] # NoItem
  /\ lsTask' = [lsTask EXCEPT ![k] = NoItem]
  /\ StoreOp("removeTask", k, FALSE, Absent, {})
  /\ UNCHANGED <<lsOrch, lsCancel, runOf>>

StoreRequestCancellation(k) ==
  /\ ~lsCancel[k]
  /\ lsCancel' = [lsCancel EXCEPT ![k] = TRUE]
  /\ StoreOp("requestCancellation", k, FALSE, Absent, {})
  /\ UNCHANGED <<lsTask, lsOrch, runOf>>

\* a form saves the parameters and launches RunOrchestration, which returns
\* at once when getOrchestrationParams gives null
StoreLaunch(k, mode) ==
  /\ ~runOf[k].running
  /\ lsOrch' = [lsOrch EXCEPT ![k] = Json([mode |-> mode])]
  /\ runOf' = [runOf EXCEPT ![k] = [running |-> TRUE, aborted |-> FALSE]]
  /\ StoreOp("saveOrchestrationParams", k, FALSE, Absent, {})
  /\ UNCHANGED <<lsTask, lsCancel>>

\* the 2 s interval of the run for key k
StorePoll(k) ==
  /\ runOf[k].running /\ ~runOf[k].aborted
  /\ isCancellationRequested(lsCancel, k)
  /\ runOf' = [runOf EXCEPT ![k].aborted = TRUE]
  /\ StoreOp("isCancellationRequested", k, FALSE, Absent, {})
  /\ UNCHANGED <<lsTask, lsOrch, lsCancel>>

\* the finally block of the run for key k
StoreRunEnd(k) ==
  /\ runOf[k].running
  /\ lsOrch' = IF getTask(lsOrch[k]) # Absent /\ lsOrch[k].value.mode = "plan"
               THEN lsOrch ELSE [lsOrch EXCEPT ![k] = NoItem]
  /\ lsCancel' = [lsCancel EXCEPT ![k] = FALSE]
  /\ runOf' = [runOf EXCEPT ![k] = [running |-> FALSE, aborted |-> FALSE]]
  /\ StoreOp("clearCancellation", k, FALSE, Absent, {})
  /\ UNCHANGED lsTask

\* any item may be damaged before the extension starts
InitStore ==
  /\ InitRun /\ GitIdle /\ PromptIdle /\ TextIdle /\ RaceIdle /\ FnIdle /\ GhostIdle
  /\ lsTask \in [TaskKeys -> {NoItem, NotJson, Json(EmptyObject)}]
  /\ lsTask["undefined"] = NoItem
  /\ lsOrch = [k \in Keys |-> NoItem]
  /\ lsCancel = [k \in Keys |-> FALSE]
  /\ runOf = [k \in Keys |-> [running |-> FALSE, aborted |-> FALSE]]
  /\ lastOp = NoOp /\ storeOps = 0

NextStore ==
  \/ \E k \in Keys : StoreGetTask(k)
  \/ \E k \in Keys : StoreSaveTask(k)
  \/ \E k \in Keys, status \in {"implementing", "error"}, extra \in StorePatches :
       StoreUpdateTaskStatus(k, status, extra)
  \/ \E k \in Keys : StoreAppendProgressLog(k)
  \/ StoreGetAllTasks
  \/ \E k \in Keys : StoreRemoveTask(k)
  \/ \E k \in Keys : StoreRequestCancellation(k)
  \/ \E k \in Keys, mode \in {"plan", "implement"} : StoreLaunch(k, mode)
  \/ \E k \in Keys : StorePoll(k)
  \/ \E k \in Keys : StoreRunEnd(k)

SpecStore == InitStore /\ [][NextStore]_vars

\* ------------------------------------------------------------ sanitizing
\* the code units of the strings: surrogates, a letter, the replacement
CodeUnits == {"HI", "LO", "a", "FFFD"}

RECURSIVE Strings(_)
Strings(n) ==
  IF n = 0 THEN {<<>>}
  ELSE Strings(n - 1) \cup {Append(t, c) : t \in Strings(n - 1), c \in CodeUnits}

\* sanitizeUnicode applied to the string, then to its own result
Sanitize ==
  /\ Len(sanOut) < 2
  /\ sanOut' = Append(sanOut, sanitizeUnicode(IF sanOut = <<>> THEN sanText ELSE sanOut[Len(sanOut)]))
  /\ UNCHANGED <<store, disk, run, budget, hist, git, prm, kv, race, fn, gh, sanText>>

InitText ==
  /\ InitRun /\ GitIdle /\ PromptIdle /\ StoreIdle /\ RaceIdle /\ FnIdle /\ GhostIdle
  /\ sanText \in Strings(MaxTextLen)
  /\ sanOut = <<>>

NextText == Sanitize

SpecText == InitText /\ [][NextText]_vars

\* ------------------------------------------- concurrent callers on one key
\* updateTaskStatus and appendProgressLog await getTask, change the record
\* they were given, and await saveTask: another caller can run in between.
CallsOf(c) == Len(SelectSeq(raceDone, LAMBDA d : d.caller = c))

\* `const task = await getTask(issueKey)`
RaceGetTask(c, op, arg) ==
  /\ racers[c].phase = "idle"
  /\ CallsOf(c) < MaxRaceCalls
  /\ racers' = [racers EXCEPT ![c] = [phase |-> "loaded", op |-> op, arg |-> arg,
                                      local |-> raceRec]]
  /\ UNCHANGED <<raceRec, raceDone>>
  /\ UNCHANGED <<store, disk, run, budget, hist, git, prm, kv, txt, fn, gh>>

\* the record a call saves: the one it read, with its own change
raceSaved(call) ==
  IF call.op = "updateTaskStatus"
  THEN updateTaskStatus(call.local, call.arg[1], NoExtra)
  ELSE appendProgressLog(call.local, call.arg)

\* `await saveTask(task)`, after which the call returns
RaceSaveTask(c) ==
  /\ racers[c].phase = "loaded"
  /\ raceRec' = raceSaved(racers[c])
  /\ raceDone' = Append(raceDone, [caller |-> c, op |-> racers[c].op, arg |-> racers[c].arg])
  /\ racers' = [racers EXCEPT ![c] = NoCallInProgress]
  /\ UNCHANGED <<store, disk, run, budget, hist, git, prm, kv, txt, fn, gh>>

\* the record a form has just saved; a run and a form then call the store
InitRace ==
  /\ InitRun /\ GitIdle /\ PromptIdle /\ StoreIdle /\ TextIdle /\ FnIdle /\ GhostIdle
  /\ raceRec = createInitialTaskState
  /\ racers = [c \in Callers |-> NoCallInProgress]
  /\ raceDone = <<>>

NextRace ==
  \/ \E c \in Callers, status \in {"planning", "implementing"} :
       RaceGetTask(c, "updateTaskStatus", <<status>>)
  \/ \E c \in Callers : RaceGetTask(c, "appendProgressLog", <<c, ToString(CallsOf(c) + 1)>>)
  \/ \E c \in Callers : RaceSaveTask(c)

SpecRace == InitRace /\ [][NextRace]_vars

\* ------------------------------------------------- installDependencies
\* Object.entries(lockFiles): the lock files in the order they are tried
LOCK_FILES == <<"bun.lockb", "bun.lock", "pnpm-lock.yaml", "yarn.lock", "package-lock.json">>

\* the command of a lock file, cmd and args joined
lockCommand(lockFile) ==
  CASE lockFile \in {"bun.lockb", "bun.lock"} -> "bun install"
    [] lockFile = "pnpm-lock.yaml" -> "pnpm install --frozen-lockfile"
    [] lockFile = "yarn.lock" -> "yarn install --frozen-lockfile"
    [] lockFile = "package-lock.json" -> "npm ci"

\* the loop from the i-th lock file on: fs.access and execFileAsync share one
\* try block, so a missing file and a failed command both go on to the next
\* entry; after the loop, npm install when package.json exists
RECURSIVE installFrom(_, _, _)
installFrom(i, files, fails) ==
  IF i > Len(LOCK_FILES)
  THEN IF "package.json" \in files THEN <<"npm install">> ELSE <<>>
  ELSE IF LOCK_FILES[i] \in files
       THEN IF lockCommand(LOCK_FILES[i]) \in fails
            THEN <<lockCommand(LOCK_FILES[i])>> \o installFrom(i + 1, files, fails)
            ELSE <<lockCommand(LOCK_FILES[i])>>
       ELSE installFrom(i + 1, files, fails)

\* installDependencies(worktreePath): the commands it runs, in order
installDependencies(files, fails) == installFrom(1, files, fails)

InstallFiles == {LOCK_FILES[i] : i \in 1..Len(LOCK_FILES)} \cup {"package.json"}

InstallCommands == {lockCommand(LOCK_FILES[i]) : i \in 1..Len(LOCK_FILES)} \cup {"npm install"}

\* one call in a worktree
InstallDependencies ==
  /\ instOut = None
  /\ instOut' = Some(installDependencies(instIn.files, instIn.fails))
  /\ UNCHANGED <<store, disk, run, budget, hist, git, prm, kv, txt, race, ev, mark, gh, instIn>>

\* any set of files in the worktree, and at most MaxFailing commands that fail
InitInstall ==
  /\ InitRun /\ GitIdle /\ PromptIdle /\ StoreIdle /\ TextIdle /\ RaceIdle /\ GhostIdle
  /\ EventsIdle /\ MarkIdle
  /\ instIn \in [files : SUBSET InstallFiles,
                 fails : {c \in SUBSET InstallCommands : Cardinality(c) <= MaxFailing}]
  /\ instOut = None

NextInstall == InstallDependencies

SpecInstall == InitInstall /\ [][NextInstall]_vars

\* ------------------------------------------ agent events to progress entries
\* a text of n characters
Rep(c, n) == [i \in 1..n |-> c]

\* str.slice(0, n)
slice(str, n) == SubSeq(str, 1, IF Len(str) < n THEN Len(str) ELSE n)

\* input.<field> ?? ""
Field(input, f) == IF f \in DOMAIN input THEN input[f] ELSE <<>>

\* `${input.pattern ?? ""} ${input.path ? `in ${input.path}` : ""}`.trim(),
\* after the tag
patternIn(input) ==
  trimEnd(Field(input, "pattern") \o <<"SP">>
          \o (IF Field(input, "path") # <<>> THEN <<"in ">> \o Field(input, "path") ELSE <<>>))

\* a faulty variant: the command of a Bash tool use is logged whole
bashDetailWhole(command) == command

\* String(input.command ?? "").slice(0, 200)
bashDetail(command) == slice(command, BashLimit)

\* formatToolUse(toolName, input): input is None when the block has none
formatToolUse(toolName, input) ==
  IF input = None THEN <<"[tool] ", toolName>>
  ELSE LET inp == input[1]
       IN CASE toolName = "Read" -> <<"[read] ">> \o Field(inp, "file_path")
            [] toolName = "Edit" -> <<"[edit] ">> \o Field(inp, "file_path")
            [] toolName = "Write" -> <<"[write] ">> \o Field(inp, "file_path")
            [] toolName = "Bash" -> <<"[bash] ">> \o bashDetail(Field(inp, "command"))
            [] toolName = "Glob" -> <<"[glob] ">> \o patternIn(inp)
            [] toolName = "Grep" -> <<"[grep] ">> \o patternIn(inp)
            [] toolName = "Task" ->
                 <<"[task] ">> \o (IF "description" \in DOMAIN inp THEN inp.description
                                   ELSE IF "prompt" \in DOMAIN inp THEN inp.prompt
                                   ELSE <<"subagent">>)
            [] toolName = "TodoWrite" -> <<"[todo] ", "updating task list">>
            [] toolName = "WebFetch" -> <<"[fetch] ">> \o Field(inp, "url")
            [] toolName = "WebSearch" -> <<"[search] ">> \o Field(inp, "query")
            [] OTHER -> <<"[tool] ", toolName>>

\* text.length > 300 ? text.slice(0, 300) + "..." : text
truncated(text) ==
  IF Len(text) > ClaudeLimit THEN slice(text, ClaudeLimit) \o <<".", ".", ".">> ELSE text

\* the entries of one content block of an assistant message
blockEntries(block) ==
  (IF block.type = "text" /\ "text" \in DOMAIN block /\ trim(block.text) # <<>>
   THEN <<<<"[claude] ">> \o truncated(trim(block.text))>> ELSE <<>>)
  \o (IF block.type = "tool_use" /\ "name" \in DOMAIN block
      THEN <<formatToolUse(block.name, block.input)>> ELSE <<>>)

RECURSIVE contentEntries(_)
contentEntries(content) ==
  IF content = <<>> THEN <<>>
  ELSE blockEntries(Head(content)) \o contentEntries(Tail(content))

\* processSDKMessage(message, onProgress): the entries passed to onProgress
processSDKMessage(message) ==
  CASE message.type = "system" ->
         IF message.subtype = "init"
         THEN <<<<"[init] ", "Session started - model, tools">>>> ELSE <<>>
    [] message.type = "assistant" -> contentEntries(message.content)
    [] message.type = "tool_use_summary" ->
         IF trim(message.summary) # <<>>
         THEN <<<<"[summary] ">> \o trim(message.summary)>> ELSE <<>>
    [] message.type = "result" ->
         <<ResultLine(IF message.is_error THEN "error" ELSE "success")>>
    [] OTHER -> <<>>

\* the lengths of agent text and commands: short, and around the two limits
TextLengths ==
  {0, 1} \cup ((BashLimit - 1)..(BashLimit + MaxOver))
         \cup ((ClaudeLimit - 1)..(ClaudeLimit + MaxOver))

\* short agent text: empty, plain, in white space, with a lone surrogate
ShortTexts == {<<>>, <<"a">>, <<"SP">>, <<"SP", "a", "NL">>, <<"a", "HI">>, <<"HI", "LO">>}

\* agent text and commands of every length around the limits, and one with
\* a surrogate pair that the limit cuts in two
LongTexts(limit) ==
  {Rep("a", n) : n \in TextLengths} \cup {Rep("a", limit - 1) \o <<"HI", "LO">>}

ToolNames ==
  {"Read", "Edit", "Write", "Bash", "Glob", "Grep", "Task", "TodoWrite", "WebFetch",
   "WebSearch", "NotebookEdit"}

\* the input of a tool use: none, an empty object, or the fields of the tool
ToolInputs(toolName, commands) ==
  {None, Some([x \in {} |-> <<>>])} \cup
  CASE toolName \in {"Read", "Edit", "Write", "NotebookEdit"} ->
         {Some([file_path |-> <<"src/", "a">>])}
    [] toolName = "Bash" ->
         {Some([command |-> t]) : t \in commands}
    [] toolName \in {"Glob", "Grep"} ->
         {Some([pattern |-> <<"*.ts">>]), Some([pattern |-> <<"*.ts">>, path |-> <<"src/">>])}
    [] toolName = "Task" ->
         {Some([description |-> <<"explore">>]), Some([prompt |-> <<"look around">>])}
    [] toolName = "TodoWrite" -> {Some([todos |-> <<"a">>])}
    [] toolName = "WebFetch" -> {Some([url |-> <<"https://", "a">>])}
    [] toolName = "WebSearch" -> {Some([query |-> <<"a">>])}

Blocks(texts, commands) ==
  {[type |-> "text", text |-> t] : t \in texts}
    \cup UNION {{[type |-> "tool_use", name |-> n, input |-> i] : i \in ToolInputs(n, commands)} :
                n \in ToolNames}
    \cup {[type |-> "tool_use", input |-> None], [type |-> "thinking"]}

\* the events of the agent's stream
Messages(texts, commands) ==
  {[type |-> "system", subtype |-> "init"], [type |-> "system", subtype |-> "status"],
   [type |-> "tool_use_summary", summary |-> <<"SP">>],
   [type |-> "tool_use_summary", summary |-> <<"read 2 files", "HI">>],
   [type |-> "result", is_error |-> FALSE], [type |-> "result", is_error |-> TRUE],
   [type |-> "user"]}
    \cup {[type |-> "assistant", content |-> <<b>>] : b \in Blocks(texts, commands)}
    \cup {[type |-> "assistant",
           content |-> <<[type |-> "text", text |-> <<"a">>],
                         [type |-> "tool_use", name |-> "Bash", input |-> None]>>]}

\* one event of the stream: every entry made of it goes through
\* onProgress: (entry) => appendProgressLog(issueKey, entry)
EventMessage(message) ==
  /\ evCount < MaxEvents
  /\ StatusOf(evRec) = "implementing"
  /\ evRec' = appendAll(evRec, processSDKMessage(message))
  /\ evLast' = [event |-> message, entries |-> processSDKMessage(message)]
  /\ evCount' = evCount + 1
  /\ UNCHANGED <<store, disk, run, budget, hist, git, prm, kv, txt, race, inst, mark, gh>>

\* the stream raises with a message of any code units; runClaude adds its
\* diagnostics and the catch block of the flow stores the message
EventRaise(msg) ==
  /\ evCount < MaxEvents
  /\ StatusOf(evRec) = "implementing"
  /\ evRec' = CatchRecord(evRec, FALSE, runClaudeDiagnostics(msg))
  /\ evLast' = [event |-> [type |-> "raise"], entries |-> <<>>]
  /\ evCount' = evCount + 1
  /\ UNCHANGED <<store, disk, run, budget, hist, git, prm, kv, txt, race, inst, mark, gh>>

\* the record of an implement run that has reached its agent step
InitEvents ==
  /\ InitRun /\ GitIdle /\ PromptIdle /\ StoreIdle /\ TextIdle /\ RaceIdle /\ GhostIdle
  /\ InstallIdle /\ MarkIdle
  /\ evRec = RecordAtAgentStep /\ evLast = NoEvent /\ evCount = 0

NextEvents ==
  \/ \E message \in Messages(ShortTexts, ShortTexts) : EventMessage(message)
  \/ \E msg \in Strings(MaxTextLen) : EventRaise(msg)

SpecEvents == InitEvents /\ [][NextEvents]_vars

\* processSDKMessage and formatToolUse on text and commands of any length:
\* the entries one event is turned into, as onProgress receives them
FormatMessage(message) ==
  /\ evCount < MaxEvents
  /\ evLast' = [event |-> message, entries |-> processSDKMessage(message)]
  /\ evCount' = evCount + 1
  /\ UNCHANGED <<store, disk, run, budget, hist, git, prm, kv, txt, race, inst, mark, gh, evRec>>

NextFormat ==
  \E message \in Messages(ShortTexts \cup LongTexts(ClaudeLimit), LongTexts(BashLimit)) :
    FormatMessage(message)

SpecFormat == InitEvents /\ [][NextFormat]_vars

\* ------------------------------------------ markNewCommentsAsAddressed
BOT_LOGINS == {"github-actions[bot]", "vercel[bot]", "linear[bot]"}

\* a faulty variant: no login is taken for a bot
isBotUserNever(login) == FALSE

isBotUser(login) == login \in BOT_LOGINS

\* the condition of both loops; created_at and the cutoff are the getTime()
\* of their dates
isNewComment(comment, prAuthor, cutoff) ==
  /\ comment.login # prAuthor
  /\ ~isBotUser(comment.login)
  /\ comment.created_at > cutoff

\* one loop, from the i-th comment of the list on: the reaction calls made,
\* in order, and the calls among them that did not raise
RECURSIVE markFrom(_, _, _, _, _, _)
markFrom(list, comments, i, prAuthor, cutoff, fails) ==
  IF i > Len(comments) THEN [reacted |-> <<>>, markedCount |-> 0]
  ELSE LET rest == markFrom(list, comments, i + 1, prAuthor, cutoff, fails)
       IN IF isNewComment(comments[i], prAuthor, cutoff)
          THEN [reacted |-> <<<<list, i>>>> \o rest.reacted,
                markedCount |-> (IF <<list, i>> \in fails THEN 0 ELSE 1) + rest.markedCount]
          ELSE rest

\* markNewCommentsAsAddressed: a fetch that fails raises out of the function,
\* after the reactions to the conversation comments when it is the second
markNewCommentsAsAddressed(inp) ==
  IF ~inp.issue.ok THEN [reacted |-> <<>>, raised |-> TRUE, markedCount |-> 0]
  ELSE LET r1 == markFrom("issue", inp.issue.comments, 1, inp.prAuthor, inp.cutoff, inp.fails)
           r2 == markFrom("review", inp.review.comments, 1, inp.prAuthor, inp.cutoff, inp.fails)
       IN IF ~inp.review.ok
          THEN [reacted |-> r1.reacted, raised |-> TRUE, markedCount |-> 0]
          ELSE [reacted |-> r1.reacted \o r2.reacted, raised |-> FALSE,
                markedCount |-> r1.markedCount + r2.markedCount]

Logins == {"alice", "bob", "vercel[bot]"}

Times == 0..MaxTime

RECURSIVE CommentLists(_)
CommentLists(n) ==
  IF n = 0 THEN {<<>>}
  ELSE CommentLists(n - 1)
         \cup {Append(l, [login |-> a, created_at |-> t]) :
                 l \in {k \in CommentLists(n - 1) : Len(k) = n - 1}, a \in Logins, t \in Times}

\* what fetchPRComments / fetchReviewComments give: the comments, or a raise
Fetched ==
  {[ok |-> TRUE, comments |-> l] : l \in CommentLists(MaxComments)}
    \cup {[ok |-> FALSE, comments |-> <<>>]}

CommentIds == {"issue", "review"} \X (1..MaxComments)

MarkNewCommentsAsAddressed ==
  /\ markOut = None
  /\ markOut' = Some(markNewCommentsAsAddressed(markIn))
  /\ UNCHANGED <<store, disk, run, budget, hist, git, prm, kv, txt, race, ev, inst, gh, markIn>>

\* a pull request of alice or bob, any cutoff, any comments, and at most one
\* reaction call that raises
InitMark ==
  /\ InitRun /\ GitIdle /\ PromptIdle /\ StoreIdle /\ TextIdle /\ RaceIdle /\ GhostIdle
  /\ EventsIdle /\ InstallIdle
  /\ markIn \in [prAuthor : {"alice", "bob"}, cutoff : Times, issue : Fetched, review : Fetched,
                 fails : {{}} \cup {{c} : c \in CommentIds}]
  /\ markOut = None

NextMark == MarkNewCommentsAsAddressed

SpecMark == InitMark /\ [][NextMark]_vars

\* ------------------------------------------------------------- properties
\* isTerminal of the progress view: the statuses at which a run rests
TerminalStatuses == {"complete", "error", "cancelled", "plan_complete"}

LastWritten == written[Len(written)]

\* C1 (as the specification states it): when the cancellation flag is set
\* before or while the agent step executes, the run ends with status cancelled
CancellationPrecedence ==
  (pc = "done" /\ cancelAtAgent /\ task # Absent) => StatusOf(task) = "cancelled"

\* C2: in an implement run on a record that starts at initializing, every
\* status written other than error and cancelled has a strictly greater index
\* in IMPL_STATUS_ORDER than the status stored before the write
MonotonicStatus ==
  [][(Mode = "implement" /\ startStatus = "initializing" /\ Len(written') > Len(written))
       => LET new == written'[Len(written')]
          IN new \in FailureStatuses \/ StatusIndex(new) > StatusIndex(StatusOf(task))]_vars

\* an implement run has written the seven statuses after initializing in order
MonotonicStatusWitness ==
  /\ pc = "done" /\ Mode = "implement" /\ startStatus = "initializing"
  /\ written = Tail(IMPL_STATUS_ORDER)
  /\ StatusOf(task) = "complete"

\* C3: the step with which a run that read parameters returns leaves the
\* cancellation flag cleared and the stored parameters removed unless the
\* run's mode was plan
Teardown ==
  [][(pc # "done" /\ pc' = "done" /\ params # Absent)
       => (~cancelFlag' /\ (Mode # "plan" => orchParams' = Absent))]_vars

\* a cancelled implement run has returned: the flag that cancelled it is
\* cleared and its parameters are gone
TeardownWitness ==
  /\ pc = "done" /\ Mode = "implement" /\ aborted
  /\ StatusOf(task) = "cancelled"
  /\ ~cancelFlag /\ orchParams = Absent

\* C4 (as the specification states it): a failure that the cancellation token
\* did not cause is recorded as status error with the raised message in the
\* error field, whether or not the token has been triggered meanwhile
ErrorClassification ==
  (raised # None /\ ~raised[1].cancel /\ task # Absent)
    => (task.status = "error" /\ task.error = Some(raised[1].message))

\* the entries appended so far in the log-bounding specification
Journal == RecordAtAgentStep.progressLog \o [i \in 1..events |-> LogEntry(AgentText(i))]

\* the n most recent entries of a log, oldest first
MostRecent(log, n) ==
  LET k == IF Len(log) < n THEN Len(log) ELSE n
  IN [i \in 1..k |-> log[Len(log) - k + i]]

\* C5: the stored log has at most 500 entries and they are the most recently
\* appended ones in their original order
LogBounding ==
  /\ task # Absent
  /\ Len(task.progressLog) <= LogCap
  /\ task.progressLog = MostRecent(Journal, LogCap)

\* more than 500 entries have been appended and the log is full
LogBoundingWitness ==
  /\ Len(Journal) > LogCap + 1
  /\ Len(task.progressLog) = LogCap
  /\ task.progressLog[LogCap] = LogEntry(AgentText(events))

\* the statuses under which a flow awaits no operation that can raise
NoRaiseStatuses(mode) ==
  IF mode = "feedback" THEN {}
  ELSE {"worktree_created", "dependencies_installed", "implementation_complete", "pr_created"}

RunEndsTerminal ==
  (pc = "done" /\ params # Absent /\ task # Absent) => StatusOf(task) \in TerminalStatuses

\* C8: once a plan run that reached plan_complete has returned, the stored
\* parameters have mode implement and the run's issue, repoName, branchName,
\* baseBranch and userInstructions; a relaunch from plan_complete runs the
\* implement flow, and when it returns the parameters are absent
PlanHandOff ==
  /\ (pc = "done" /\ Mode = "plan" /\ written # <<>> /\ LastWritten = "plan_complete")
       => /\ orchParams # Absent
          /\ orchParams.mode = "implement"
          /\ \A f \in {"issue", "repoName", "branchName", "baseBranch", "userInstructions"} :
               orchParams[f] = params[f]
  /\ startStatus = "plan_complete" => Mode = "implement"
  /\ (pc = "done" /\ startStatus = "plan_complete") => orchParams = Absent

\* the relaunch after a plan run has run the implement flow to complete and
\* has returned with the parameters absent
PlanHandOffWitness ==
  /\ pc = "done" /\ startStatus = "plan_complete" /\ Mode = "implement"
  /\ params.userInstructions = <<"extra context">>
  /\ StatusOf(task) = "complete" /\ orchParams = Absent

\* C9: in the implement flow a record in pr_created or complete carries prUrl
\* and prNumber, and a run in which every step succeeded has passed through
\* pr_created and ended in complete
PrRecorded ==
  /\ (Mode = "implement" /\ task # Absent /\ task.status \in {"pr_created", "complete"})
       => (task.prUrl # None /\ task.prNumber # None)
  /\ (pc = "done" /\ Mode = "implement" /\ task # Absent /\ failed = <<>> /\ raised = None)
       => /\ task.status = "complete"
          /\ Len(written) >= 2
          /\ written[Len(written) - 1] = "pr_created" /\ LastWritten = "complete"

\* an implement run forked the workspace from the base branch, every step
\* succeeded, and it returned in complete with the pull request recorded
PrRecordedWitness ==
  /\ pc = "done" /\ Mode = "implement" /\ startStatus = "initializing"
  /\ failed = <<>> /\ raised = None /\ wtKind = "forked"
  /\ StatusOf(task) = "complete"
  /\ task.prUrl = Some(CreatedPr.html_url) /\ task.prNumber = Some(CreatedPr.number)

\* the operations the flows are to treat as best effort
BestEffortOps ==
  {"transitionIssue", "addLinearComment", "addPRComment", "markNewCommentsAsAddressed",
   "prettier", "pullBranch"}

\* C10 (as the specification states it): a run in which only best-effort
\* operations failed does not end in status error
BestEffortNeverFails ==
  (failed # <<>> /\ (\A i \in 1..Len(failed) : failed[i] \in BestEffortOps))
    => StatusOf(task) # "error"

\* the external operations that failed in this run, as a set
FailedOps == {failed[i] : i \in 1..Len(failed)}

WrittenStatuses == {written[i] : i \in 1..Len(written)}

\* C11 (as the specification states it): when the install command fails, the
\* flow does not write dependencies_installed and the task ends in error
InstallFailureSurfaced ==
  ("installDependencies" \in FailedOps /\ task # Absent)
    => /\ "dependencies_installed" \notin WrittenStatuses
       /\ (pc = "done" => StatusOf(task) = "error")

\* C12 (as the specification states it): when the result event of the agent
\* reports an error, the flow writes none of implementation_complete,
\* plan_complete and pushing, and the task ends in error or cancelled
AgentErrorRaises ==
  ("runClaude" \in FailedOps /\ task # Absent)
    => /\ WrittenStatuses \cap {"implementation_complete", "plan_complete", "pushing"} = {}
       /\ (pc = "done" => StatusOf(task) \in FailureStatuses)

\* the step is a call of the worktree service op for branch b
IsCall(op, b) == calls' = calls + 1 /\ lastCall'.op = op /\ lastCall'.branch = b

\* C13: a createWorktree call for a branch whose worktree an earlier call
\* created and none removed runs only the fetch, changes nothing in the
\* repository, and returns the path the earlier call returned
IdempotentCreate ==
  [][\A b \in Branches :
       (IsCall("createWorktree", b) /\ created[b] # None)
         => /\ lastCall'.ops = <<"fetch">>
            /\ gitRepo' = gitRepo
            /\ (lastCall'.ret # <<"raise">> => lastCall'.ret = created[b][1])]_vars

\* createWorktree was called again for a branch after commits were made in
\* the worktree it had created, and returned the same path after a fetch alone
IdempotentCreateWitness ==
  /\ lastCall.op = "createWorktree" /\ lastCall.ops = <<"fetch">>
  /\ lastCall.ret = getWorktreePath("svc", lastCall.branch)
  /\ created[lastCall.branch] = Some(lastCall.ret)
  /\ gitRepo[lastCall.branch].commits = 1

\* C14: when createWorktree creates the worktree, the checkout tracks
\* origin/<branch> when the branch exists upstream and is forked from
\* origin/<baseBranch> only when it does not
UpstreamTieBreak ==
  [][\A b \in Branches :
       (IsCall("createWorktree", b) /\ gitRepo[b].kind = "none" /\ lastCall'.ret # <<"raise">>)
         => IF gitRepo[b].remote
            THEN /\ gitRepo'[b].kind = "tracking"
                 /\ lastCall'.ops[Len(lastCall'.ops)] = "worktree add --track -b <branch> origin/<branch>"
            ELSE /\ gitRepo'[b].kind = "forked"
                 /\ lastCall'.ops[Len(lastCall'.ops)] = "worktree add -b <branch> origin/<baseBranch>"]_vars

\* a worktree has been created for a branch that existed upstream, and it
\* tracks that branch
UpstreamTieBreakWitness ==
  /\ lastCall.op = "createWorktree" /\ lastCall.ret # <<"raise">>
  /\ Len(lastCall.ops) = 4
  /\ gitRepo[lastCall.branch].remote /\ gitRepo[lastCall.branch].kind = "tracking"

\* C15: commitAllChanges returns true exactly when content was staged, and
\* then has made exactly one commit; it makes no commit otherwise; a call
\* that directly follows a call that returned, on the same worktree, returns
\* false and makes no commit
CommitIdempotence ==
  [][\A b \in Branches :
       IsCall("commitAllChanges", b)
         => LET ops == {lastCall'.ops[i] : i \in 1..Len(lastCall'.ops)}
                made == gitRepo'[b].commits - gitRepo[b].commits
            IN /\ lastCall'.ret = <<"true">>
                    <=> ("git diff --cached: staged" \in ops /\ lastCall'.ret # <<"raise">>)
               /\ made = IF lastCall'.ret = <<"true">> THEN 1 ELSE 0
               /\ (lastCall.op = "commitAllChanges" /\ lastCall.branch = b
                     /\ lastCall.ret # <<"raise">>)
                    => (lastCall'.ret = <<"false">> /\ made = 0)]_vars

\* commitAllChanges has returned false right after a call that committed
CommitIdempotenceWitness ==
  /\ lastCall.op = "commitAllChanges" /\ lastCall.ret = <<"false">>
  /\ gitRepo[lastCall.branch].commits = 1 /\ ~gitRepo[lastCall.branch].dirty
  /\ calls >= 3

\* C16: whenever a plan file exists for the branch when the implement flow
\* reaches the agent step, the prompt handed to the agent contains the full
\* text of the plan file unchanged
PlanReuse ==
  (prompt # None /\ planFile # None) => includes(prompt[1], planFile[1])

\* a stored item that is the JSON text of a task record
WellFormed(raw) ==
  raw.kind = "json" /\ DOMAIN TaskFor("any") \subseteq DOMAIN raw.value

\* the step is a store operation op for key k
IsStoreOp(op, k) == storeOps' = storeOps + 1 /\ lastOp'.op = op /\ lastOp'.key = k

\* C17: on an absent or malformed record no store operation raises, getTask
\* returns absent, updateTaskStatus and appendProgressLog change nothing in
\* the store, and getAllTasks returns exactly the well-formed records
MalformedAsAbsent ==
  [][/\ \A k \in Keys :
          ~WellFormed(lsTask[k])
            => /\ IsStoreOp("getTask", k) => (lastOp'.ret = Absent /\ ~lastOp'.raised)
               /\ (IsStoreOp("updateTaskStatus", k) \/ IsStoreOp("appendProgressLog", k))
                    => (lsTask' = lsTask /\ ~lastOp'.raised)
     /\ IsStoreOp("getAllTasks", "none")
          => lastOp'.all = {lsTask[k].value : k \in {j \in TaskKeys : WellFormed(lsTask[j])}}]_vars

\* C18: a store operation or a step of a run for one key leaves the other
\* key's task record, cancellation flag, parameters and run as they were,
\* and a run is aborted only when the flag of its own key is set
CrossKeyIsolation ==
  [][\A j \in Keys :
       /\ lastOp'.key # j
            => /\ lsTask'[j] = lsTask[j] /\ lsOrch'[j] = lsOrch[j]
               /\ lsCancel'[j] = lsCancel[j] /\ runOf'[j] = runOf[j]
       /\ (runOf'[j].aborted /\ ~runOf[j].aborted) => lsCancel[j]]_vars

\* the run of one key was aborted by its cancellation while the run of the
\* other key, whose flag is not set, goes on
CrossKeyIsolationWitness ==
  \E k \in Keys, j \in Keys :
    /\ k # j /\ lastOp.op = "isCancellationRequested" /\ lastOp.key = k
    /\ runOf[k].aborted /\ lsCancel[k]
    /\ runOf[j].running /\ ~runOf[j].aborted /\ ~lsCancel[j]

\* costUsd of a stored record, an unset cost counting as 0
StoredCost(t) == IF t.costUsd = None THEN 0 ELSE t.costUsd[1]

\* C19: when a run records the result of its agent (plan, plan revision,
\* implement, feedback), the record's costUsd becomes the costUsd stored
\* before plus the cost the agent's result reported
CostAdditive ==
  [][(/\ pc = "runClaude" /\ task # Absent /\ task' # Absent
      /\ Len(written') > Len(written)
      /\ written'[Len(written')] \in {"implementation_complete", "plan_complete", "pushing"})
       => task'.costUsd = Some(StoredCost(task) + AgentCost)]_vars

\* the code unit at i is a surrogate that is no half of a valid pair
Unpaired(str, i) ==
  \/ IsHigh(str[i]) /\ ~(i < Len(str) /\ IsLow(str[i + 1]))
  \/ IsLow(str[i]) /\ ~(i > 1 /\ IsHigh(str[i - 1]))

\* C20: sanitizeUnicode returns a string of the same length in which every
\* unpaired surrogate is U+FFFD and every other code unit, the halves of
\* valid pairs included, is unchanged; applying it again changes nothing
SanitizeTotal ==
  /\ Len(sanOut) >= 1
       => /\ Len(sanOut[1]) = Len(sanText)
          /\ \A i \in 1..Len(sanText) :
               sanOut[1][i] = IF Unpaired(sanText, i) THEN "FFFD" ELSE sanText[i]
  /\ Len(sanOut) = 2 => sanOut[2] = sanOut[1]

\* a string with a lone high surrogate before a letter and a valid pair
\* has been sanitized twice
SanitizeTotalWitness ==
  /\ sanText = <<"HI", "a", "HI", "LO">>
  /\ sanOut = <<<<"FFFD", "a", "HI", "LO">>, <<"FFFD", "a", "HI", "LO">>>>

\* C21 (as the specification states it): a run ends in cancelled only when
\* requestCancellation was called after that run started
CancelledOnlyByRequestInRun ==
  (written # <<>> /\ LastWritten = "cancelled") => requestedInRun

\* the completed calls of one operation, in order of completion
DoneOf(op) == SelectSeq(raceDone, LAMBDA d : d.op = op)

\* C22 (as the specification states it): under any interleaving of
\* updateTaskStatus and appendProgressLog on one key no completed write is
\* lost: every appended line is in the stored log, the stored status is that
\* of the last updateTaskStatus to complete, and appendProgressLog leaves the
\* status as it was
NoLostWrite ==
  /\ \A i \in 1..Len(DoneOf("appendProgressLog")) :
       \E j \in 1..Len(raceRec.progressLog) :
         raceRec.progressLog[j] = LogEntry(DoneOf("appendProgressLog")[i].arg)
  /\ DoneOf("updateTaskStatus") # <<>>
       => raceRec.status
            = DoneOf("updateTaskStatus")[Len(DoneOf("updateTaskStatus"))].arg[1]

\* C23 (as the specification states it): after a plan run that ended in
\* error or cancelled the stored parameters still have mode plan
HandOffOnlyAfterPlanComplete ==
  (pc = "done" /\ Mode = "plan" /\ written # <<>> /\ LastWritten \in FailureStatuses)
    => (orchParams # Absent /\ orchParams.mode = "plan")

\* the positions at which a side-effecting step of a flow begins
SideEffectSteps ==
  {"installDependencies", "runClaude", "commitAllChanges", "commitLocal", "pushBranch",
   "createPullRequest"}

\* C24 (as the specification states it): once the token is triggered and
\* the step in progress has completed, no dependency install, agent run,
\* commit, push or pull-request creation begins, and the run ends in cancelled
AbortStopsFlow ==
  /\ [][(aborted /\ stepAfterAbort) => ~(pc \in SideEffectSteps /\ pc' # pc)]_vars
  /\ []((pc = "done" /\ stepAfterAbort /\ task # Absent) => StatusOf(task) = "cancelled")


\* The status that names the phase of each long step of the implement flow
\* (IMPL_STATUS_ORDER): workspace creation, dependency install, agent run,
\* commit and push, pull-request creation.
PhaseStatus(step) ==
  CASE step = "createWorktree" -> "worktree_created"
    [] step = "installDependencies" -> "dependencies_installed"
    [] step = "runClaude" -> "implementing"
    [] step \in {"commitAllChanges", "pushBranch"} -> "pushing"
    [] step = "createPullRequest" -> "pr_created"
    [] OTHER -> "none"

\* C25 (as the specification states it): while a long step of the implement
\* flow is executing, the stored status is already the status of that step's
\* phase, never the status of an earlier phase.
StatusBeforeWork ==
  (Mode = "implement" /\ task # Absent /\ PhaseStatus(pc) # "none")
    => StatusOf(task) = PhaseStatus(pc)


\* C26 (as the specification states it): every status write of a flow is
\* followed by at least one progress-log entry for that transition before the
\* next status write and before the run ends.
EveryStatusLogged ==
  /\ unlogged = {}
  /\ (pc = "done" /\ written # <<>> /\ task # Absent) => ~bare


\* C27 (as the specification states it): in the implement and feedback flows
\* pushBranch is entered only from a completed commitAllChanges that left the
\* tree clean, and never in a run whose agent step did not complete
\* successfully.
CommitBeforePush ==
  /\ [][(pc' = "pushBranch" /\ pc # "pushBranch") => pc = "commitAllChanges"]_vars
  /\ [](pc = "pushBranch" => (~dirty /\ "runClaude" \notin FailedOps))


\* the statuses a feedback run writes on its way, in order
FEEDBACK_STATUS_ORDER == <<"feedback_implementing", "pushing", "complete">>

\* w is a prefix of order, possibly followed by one of error / cancelled
PrefixThenFailure(order, w) ==
  \E n \in 0..Len(order) :
    /\ Len(w) \in {n, n + 1}
    /\ \A i \in 1..n : w[i] = order[i]
    /\ Len(w) = n + 1 => w[n + 1] \in FailureStatuses

FeedbackSequence(w) == PrefixThenFailure(FEEDBACK_STATUS_ORDER, w)

\* C28 (as the specification states it): a feedback run writes
\* feedback_implementing, pushing, complete in that order (or error / cancelled
\* on failure) and no other status, and its agent step is started with
\* resumeSessionId equal to the session identifier stored on the task record.
FeedbackShortFlow ==
  Mode = "feedback" =>
    /\ FeedbackSequence(written)
    /\ agentStart.started => agentStart.resume = agentStart.stored


\* C29 (as the specification states it): when a task is looped back into
\* the plan flow with updateExistingPlan set, the agent step
\* is started with the session identifier the previous plan run stored on the
\* record, and with the text of the existing plan file in the prompt.
PlanRevisionContinues ==
  (Mode = "plan" /\ params.updateExistingPlan /\ agentStart.started)
    => /\ agentStart.stored # None => agentStart.resume = agentStart.stored
       /\ (agentStart.file # None /\ agentStart.file[1] # <<>>)
            => agentStart.plan = agentStart.file


\* the statuses a plan run writes on its way, in order
PLAN_STATUS_ORDER == <<"worktree_created", "dependencies_installed", "planning", "plan_complete">>

\* the positions at which a flow calls commitAllChanges, pushBranch or
\* createPullRequest, and those only the push phase passes through
PushPhaseSteps ==
  {"notifyPushing", "commitAllChanges", "commitLocal", "pushBranch", "createPullRequest",
   "transitionInReview", "addLinearCommentPr"}

\* C30: a plan-mode run writes only worktree_created, dependencies_installed,
\* planning and plan_complete, in that order (or error / cancelled on
\* failure), and never reaches commitAllChanges, pushBranch or
\* createPullRequest.
PlanIsPrefix ==
  Mode = "plan" =>
    /\ PrefixThenFailure(PLAN_STATUS_ORDER, written)
    /\ pc \notin PushPhaseSteps

\* a plan run that has ended with all four statuses written
PlanIsPrefixWitness ==
  pc = "done" /\ Mode = "plan" /\ written = PLAN_STATUS_ORDER


\* C31: a task has status cancelled only if requestCancellation was called
\* for its key earlier: the token is triggered only in a step that finds the
\* flag set, a flow writes cancelled only while the token is triggered, and
\* the flag is only ever set by requestCancellation.
CancelledOnlyAfterRequest ==
  /\ []((StatusOf(task) = "cancelled" \/ aborted \/ cancelFlag) => everRequested)
  /\ [][(aborted' /\ ~aborted) => cancelFlag]_vars
  /\ [][(Len(written') > Len(written) /\ written'[Len(written')] = "cancelled") => aborted]_vars

\* a run has ended in cancelled
CancelledOnlyAfterRequestWitness ==
  pc = "done" /\ StatusOf(task) = "cancelled" /\ aborted /\ everRequested


\* C32 (as the specification states it): the error field of a task record is
\* set only while its status is error; a record whose status is anything else
\* carries no error message from an earlier failure.
ErrorOnlyWhileError ==
  (task # Absent /\ StatusOf(task) # "error") => task.error = None


\* C33: updateTaskStatus on a stored record changes only the status and the
\* fields named in the patch, which take the patch's values; the progress log
\* and every other field stay as stored. appendProgressLog changes only the
\* progress log. Neither adds or removes a field.
PartialMerge ==
  [][\A k \in Keys :
       WellFormed(lsTask[k]) =>
         /\ IsStoreOp("updateTaskStatus", k)
              => /\ lsTask'[k].kind = "json"
                 /\ DOMAIN lsTask'[k].value = DOMAIN lsTask[k].value
                 /\ \A f \in DOMAIN lsTask[k].value :
                      IF f \in DOMAIN lastOp'.extra
                      THEN lsTask'[k].value[f] = lastOp'.extra[f]
                      ELSE f # "status" => lsTask'[k].value[f] = lsTask[k].value[f]
         /\ IsStoreOp("appendProgressLog", k)
              => /\ lsTask'[k].kind = "json"
                 /\ DOMAIN lsTask'[k].value = DOMAIN lsTask[k].value
                 /\ \A f \in DOMAIN lsTask[k].value \ {"progressLog"} :
                      lsTask'[k].value[f] = lsTask[k].value[f]]_vars

\* a patch was merged into a record that has log entries, which it kept
PartialMergeWitness ==
  /\ lastOp.op = "updateTaskStatus" /\ DOMAIN lastOp.extra # {}
  /\ WellFormed(lsTask[lastOp.key])
  /\ lsTask[lastOp.key].value.progressLog # <<>>
  /\ lsTask[lastOp.key].value.status = "error"


\* the lock files present, in the order they are tried
PresentLocks(files) == SelectSeq(LOCK_FILES, LAMBDA f : f \in files)

\* C34 (as the specification states it): a call of installDependencies runs
\* at most one command: that of the first lock file present; npm install only
\* when package.json exists and no lock file is present; nothing without a
\* manifest.
OneInstallCommand ==
  instOut # None =>
    instOut[1] = IF PresentLocks(instIn.files) # <<>>
                 THEN <<lockCommand(PresentLocks(instIn.files)[1])>>
                 ELSE IF "package.json" \in instIn.files THEN <<"npm install">> ELSE <<>>


\* no code unit of the text is an unpaired surrogate
WellPaired(text) == \A i \in 1..Len(text) : ~Unpaired(text, i)

\* C35 (as the specification states it): after any sequence of store writes
\* of an agent step, no progress-log entry and no stored error message holds
\* an unpaired surrogate, whatever the agent's output and the raised message
\* held.
PersistedTextSanitized ==
  /\ \A i \in 1..Len(evRec.progressLog) : WellPaired(evRec.progressLog[i])
  /\ evRec.error # None => WellPaired(evRec.error[1])


\* the tags of the progress entries made of agent events
TAG_VOCABULARY ==
  {"[claude] ", "[read] ", "[edit] ", "[write] ", "[bash] ", "[glob] ", "[grep] ", "[task] ",
   "[todo] ", "[fetch] ", "[search] ", "[init] ", "[summary] ", "[result] "}

\* C36 (as the specification states it): every entry made of an agent event
\* carries a tag of the fixed vocabulary, for every event kind and every tool
\* name, unrecognised tools and tool uses without input included.
TagsInVocabulary ==
  \A i \in 1..Len(evLast.entries) : evLast.entries[i][1] \in TAG_VOCABULARY


\* the detail of an entry: what follows its tag
Detail(entry) == Tail(entry)

\* C37 (as the specification states it): the detail of a [claude] entry is
\* never longer than 300 characters and the detail of a [bash] entry never
\* longer than 200, for agent text and commands of any length.
TruncationBounds ==
  \A i \in 1..Len(evLast.entries) :
    /\ evLast.entries[i][1] = "[claude] " => Len(Detail(evLast.entries[i])) <= ClaudeLimit
    /\ evLast.entries[i][1] = "[bash] " => Len(Detail(evLast.entries[i])) <= BashLimit


\* C38: markNewCommentsAsAddressed makes a reaction call for a comment of the
\* pull request, conversation or inline, only if the comment was created
\* strictly after the cutoff, its author is not the author of the pull
\* request and its author is not a recognised bot; when the call returns it
\* has made that call for every such comment, and the count it returns is the
\* number of those comments whose reaction call did not raise.
MarkComments(list) == IF list = "issue" THEN markIn.issue.comments ELSE markIn.review.comments

MarkQualifies(c) ==
  /\ c[2] \in 1..Len(MarkComments(c[1]))
  /\ MarkComments(c[1])[c[2]].created_at > markIn.cutoff
  /\ MarkComments(c[1])[c[2]].login # markIn.prAuthor
  /\ MarkComments(c[1])[c[2]].login \notin {"github-actions[bot]", "vercel[bot]", "linear[bot]"}

MarkReacted == {markOut[1].reacted[i] : i \in 1..Len(markOut[1].reacted)}

====
